---- MODULE Spec2Model ----
(***************************************************************************)
(* Progress calculator and certification state machine of the learning     *)
(* center client (CourseDashboard, CoursePage, UsersManagement,            *)
(* ProgressAnalytics).                                                     *)
(*                                                                         *)
(* JavaScript numbers are IEEE-754 doubles.  The percentage computations   *)
(* of the source divide two integers, multiply the quotient by 100 and     *)
(* pass the product to Math.round; every one of the three steps rounds, so *)
(* the doubles are modelled bit by bit (53 bit significand, round to       *)
(* nearest, ties to even) instead of as exact rationals.                   *)
(***************************************************************************)
EXTENDS Integers, Sequences, FiniteSets

(***************************************************************************)
(* IEEE-754 binary64 arithmetic on the non-negative finite values the      *)
(* percentage computations produce.  A double is [exp, bits]: bits is the  *)
(* significand, most significant bit first, bits[1] = 1, and the value is  *)
(* the sum of bits[i] * 2^(exp - (i - 1)).  Zero has no bits.              *)
(***************************************************************************)
MantissaBits == 53

FZero == [exp |-> 0, bits |-> <<>>]

\* powers of two up to 2^30
Pow2(k) ==
    << 1, 2, 4, 8, 16, 32, 64, 128, 256, 512, 1024, 2048, 4096, 8192, 16384,
       32768, 65536, 131072, 262144, 524288, 1048576, 2097152, 4194304,
       8388608, 16777216, 33554432, 67108864, 134217728, 268435456,
       536870912, 1073741824 >>[k + 1]

\* k zero bits
Zeros(k) == [i \in 1..k |-> 0]

\* the w low binary digits of a natural number, most significant first
WordToBits(n, w) == [i \in 1..w |-> (n \div Pow2(w - i)) % 2]

\* number of binary digits of a natural number (0 for 0)
RECURSIVE BitLength(_)
BitLength(n) == IF n = 0 THEN 0 ELSE 1 + BitLength(n \div 2)

\* value of a bit string of at most 30 bits, most significant first
RECURSIVE BitsToNat(_)
BitsToNat(bits) ==
    IF Len(bits) = 0 THEN 0
    ELSE IF Len(bits) = 1 THEN bits[1]
    ELSE LET half == Len(bits) \div 2
         IN  BitsToNat(SubSeq(bits, 1, half)) * Pow2(Len(bits) - half)
             + BitsToNat(SubSeq(bits, half + 1, Len(bits)))

\* bits + 1 on a fixed width: the trailing ones become zeros and the zero
\* before them a one; carryOut tells that the width overflowed
IncBits(bits) ==
    LET zeroAt == {i \in 1..Len(bits) : bits[i] = 0}
    IN  IF zeroAt = {} THEN [bits |-> Zeros(Len(bits)), carryOut |-> TRUE]
        ELSE LET last == CHOOSE i \in zeroAt : \A j \in zeroAt : j <= i
             IN  [bits |-> [i \in 1..Len(bits) |->
                               IF i < last THEN bits[i]
                               ELSE IF i = last THEN 1 ELSE 0],
                  carryOut |-> FALSE]

\* round to nearest, ties to even: kept holds the MantissaBits leading bits,
\* guard the first dropped bit, sticky whether anything non-zero follows it
RoundNearestEven(exp, kept, guard, sticky) ==
    IF guard = 1 /\ (sticky \/ kept[Len(kept)] = 1)
    THEN LET inc == IncBits(kept)
         IN  IF inc.carryOut
             THEN [exp |-> exp + 1, bits |-> <<1>> \o Zeros(Len(kept) - 1)]
             ELSE [exp |-> exp, bits |-> inc.bits]
    ELSE [exp |-> exp, bits |-> kept]

\* largest e with d * 2^e <= n, for n >= d >= 1
RECURSIVE Log2Quot(_, _)
Log2Quot(n, d) == IF 2 * d <= n THEN 1 + Log2Quot(n, 2 * d) ELSE 0

\* smallest j with n * 2^j >= d, for 1 <= n
RECURSIVE Log2Scale(_, _)
Log2Scale(n, d) == IF n >= d THEN 0 ELSE 1 + Log2Scale(2 * n, d)

\* long division, 13 quotient bits at a time: the next 13 bits of r / d
\* (r < d < 2^17) and the remainder
DivChunkBits == 13

DivChunk(r, d) ==
    [quot |-> (r * Pow2(DivChunkBits)) \div d, rem |-> (r * Pow2(DivChunkBits)) % d]

\* the double c / t of two integers 0 <= c < 2^17, 0 < t < 2^17 (both are
\* exactly representable): the leading bit and 4 * 13 = 52 further bits
FDiv(c, t) ==
    IF c = 0 THEN FZero
    ELSE LET up  == IF c >= t THEN Log2Quot(c, t) ELSE 0
             dn  == IF c >= t THEN 0 ELSE Log2Scale(c, t)
             n   == c * Pow2(dn)
             d   == t * Pow2(up)
             q1  == DivChunk(n - d, d)
             q2  == DivChunk(q1.rem, d)
             q3  == DivChunk(q2.rem, d)
             q4  == DivChunk(q3.rem, d)
             grd == IF 2 * q4.rem >= d THEN 1 ELSE 0
         IN  RoundNearestEven(up - dn,
                              <<1>> \o WordToBits(q1.quot, DivChunkBits)
                                    \o WordToBits(q2.quot, DivChunkBits)
                                    \o WordToBits(q3.quot, DivChunkBits)
                                    \o WordToBits(q4.quot, DivChunkBits),
                              grd, 2 * q4.rem - grd * d # 0)

\* the double x * k for a natural 1 <= k < 2^10: the exact product of the
\* significand taken in words of 20, 20 and 13 bits, then rounded
MulWordBits == 20

FMul(x, k) ==
    IF Len(x.bits) = 0 THEN FZero
    ELSE LET w0    == BitsToNat(SubSeq(x.bits, MantissaBits - MulWordBits + 1, MantissaBits))
             w1    == BitsToNat(SubSeq(x.bits, MantissaBits - 2 * MulWordBits + 1,
                                       MantissaBits - MulWordBits))
             w2    == BitsToNat(SubSeq(x.bits, 1, MantissaBits - 2 * MulWordBits))
             a0    == w0 * k
             a1    == w1 * k + a0 \div Pow2(MulWordBits)
             a2    == w2 * k + a1 \div Pow2(MulWordBits)
             prod  == WordToBits(a2, BitLength(a2))
                      \o WordToBits(a1 % Pow2(MulWordBits), MulWordBits)
                      \o WordToBits(a0 % Pow2(MulWordBits), MulWordBits)
             extra == Len(prod) - MantissaBits
         IN  IF extra = 0 THEN [exp |-> x.exp, bits |-> prod]
             ELSE RoundNearestEven(x.exp + extra, SubSeq(prod, 1, MantissaBits),
                                   prod[MantissaBits + 1],
                                   \E i \in (MantissaBits + 2)..Len(prod) : prod[i] = 1)

\* Math.round: the nearest integer, a tie going to the larger one
MathRound(x) ==
    IF Len(x.bits) = 0 \/ x.exp < -1 THEN 0
    ELSE IF x.exp = -1 THEN 1
    ELSE BitsToNat(SubSeq(x.bits, 1, x.exp + 1))
         + (IF x.exp + 2 <= Len(x.bits) THEN x.bits[x.exp + 2] ELSE 0)


(***************************************************************************)
(* Rows of the hosted data platform.  Identifiers are integers: those of   *)
(* subsections are positive, those of legacy lessons negative.  NullId and *)
(* NullTime stand for a null column.                                       *)
(***************************************************************************)
NullId == 0
NullTime == 0
NoUser == "none"
\* identifier of the i-th legacy lesson
LessonId(i) == 0 - i

VARIABLES
    db,                     \* the tables of the data platform
    user,                   \* useAuth().user of the session
    page,                   \* the mounted route
    courseId,               \* route parameter of the course page
    courses,                \* CourseDashboard state
    userProgress,           \* CourseDashboard state
    certificationWorkflows, \* CourseDashboard state, keyed by level
    loading,                \* loading flag of the mounted page
    courseProgress,         \* CourseDashboard render: getCourseProgress(currentCourse)
    dashboardState,         \* CourseDashboard render: getCurrentDashboardState()
    coursePage,             \* CoursePage state
    users,                  \* UsersManagement state
    progressData,           \* ProgressAnalytics state
    pending,                \* the calls awaiting their response, with their number
    lastCall,               \* the handler that ran last: its outcome and its toast
    subsectionId,           \* route parameter of the subsection page
    subsectionPage,         \* SubsectionPage state
    examManagement,         \* CertificationExamManagement state
    roleUsers,              \* UsersManagement state of the listing with roles
    review,                 \* CertificationReview state
    reviewCalls,            \* CertificationReview: the approve/reject calls in flight
    contentTables,          \* the courses, sections and subsections tables of the content screens
    contentManagement,      \* ContentManagement state
    subsectionEditor,       \* SubsectionEditor route parameters and state
    analyticsFilters,       \* ProgressAnalytics state: the search term and the filters
    filteredData            \* ProgressAnalytics state

\* the state of the learner pages and of the progress screens
learnerVars == << courses, userProgress, certificationWorkflows, courseProgress,
                  dashboardState, coursePage, users, progressData >>

\* the state of the subsection page and of the other admin screens
adminVars == << subsectionId, subsectionPage, examManagement, roleUsers, review,
                reviewCalls >>

\* the state of the content screens and of the filters of the analytics
contentVars == << contentTables, contentManagement, subsectionEditor, analyticsFilters,
                  filteredData >>

vars == << db, user, page, courseId, courses, userProgress,
           certificationWorkflows, loading, courseProgress, dashboardState,
           coursePage, users, progressData, pending, lastCall, subsectionId,
           subsectionPage, examManagement, roleUsers, review, reviewCalls,
           contentTables, contentManagement, subsectionEditor, analyticsFilters,
           filteredData >>

\* sum of a sequence of naturals
RECURSIVE SumSeq(_)
SumSeq(q) == IF Len(q) = 0 THEN 0 ELSE q[1] + SumSeq(Tail(q))

\* concatenation of a sequence of sequences
RECURSIVE Flatten(_)
Flatten(q) == IF Len(q) = 0 THEN <<>> ELSE q[1] \o Flatten(Tail(q))

(***************************************************************************)
(* CourseDashboard                                                         *)
(***************************************************************************)
ZeroProgress == [percentage |-> 0, completed |-> 0, total |-> 0]

\* the courses query: rows ordered by level
MaxLevel == 2

RECURSIVE OrderByLevel(_, _)
OrderByLevel(rows, lvl) ==
    IF lvl > MaxLevel THEN <<>>
    ELSE SelectSeq(rows, LAMBDA r : r.level = lvl) \o OrderByLevel(rows, lvl + 1)

\* variant that assigns the subsection count of a section instead of adding it
TotalItems_LastSection(course) ==
    IF Len(course.sections) > 0
    THEN Len(course.sections[Len(course.sections)].subsections)
    ELSE 0

\* fetchCourses: the total item count of a fetched course
TotalItems(course) ==
    IF Len(course.sections) > 0
    THEN SumSeq([i \in 1..Len(course.sections) |-> Len(course.sections[i].subsections)])
    ELSE 0

CoursesWithTotals(data) ==
    [i \in 1..Len(data) |->
        [id |-> data[i].id, level |-> data[i].level,
         is_available |-> data[i].is_available,
         is_coming_soon |-> data[i].is_coming_soon,
         sections |-> data[i].sections,
         _totalItems |-> TotalItems(data[i]),
         _hasStructuredContent |-> Len(data[i].sections) > 0]]

\* fetchUserProgress: the selected columns of the user's rows
UserProgressRows(rows, uid) ==
    LET mine == SelectSeq(rows, LAMBDA r : r.user_id = uid)
    IN  [i \in 1..Len(mine) |->
            [course_id |-> mine[i].course_id, subsection_id |-> mine[i].subsection_id,
             lesson_id |-> mine[i].lesson_id, completed_at |-> mine[i].completed_at]]

\* fetchCertificationWorkflows: the rows keyed by level, a later row winning
WorkflowsByLevel(data) ==
    [lvl \in {data[i].level : i \in 1..Len(data)} |->
        data[CHOOSE i \in 1..Len(data) :
                /\ data[i].level = lvl
                /\ \A j \in 1..Len(data) : data[j].level = lvl => j <= i]]

GetCourseStatus(course) ==
    IF course.level = 1 /\ course.is_available THEN "available"
    ELSE IF course.level > 1 THEN "locked"
    ELSE IF course.is_coming_soon THEN "coming-soon"
    ELSE "locked"

\* getCurrentCourse returns undefined when there is no course
HasCurrentCourse(cs) == Len(cs) > 0

GetCurrentCourse(cs) ==
    LET avail == {i \in 1..Len(cs) : GetCourseStatus(cs[i]) = "available"}
    IN  IF avail # {} THEN cs[CHOOSE i \in avail : \A j \in avail : i <= j]
        ELSE cs[1]

\* variant with the operands of the division swapped:
\* Math.round((totalCount / (completedCount || 1)) * 100)
RoundedPercentage_Swapped(completedCount, totalCount) ==
    MathRound(FMul(FDiv(totalCount, IF completedCount = 0 THEN 1 ELSE completedCount), 100))

\* Math.round((completedCount / totalCount) * 100)
RoundedPercentage(completedCount, totalCount) ==
    MathRound(FMul(FDiv(completedCount, totalCount), 100))

\* variant that counts the completed records instead of collecting their
\* identifiers in a Set
CompletedItemsIds_PerRecord(course, up) ==
    {j \in 1..Len(up) : /\ up[j].course_id = course.id
                        /\ up[j].completed_at # NullTime
                        /\ (up[j].subsection_id # NullId \/ up[j].lesson_id # NullId)}

\* the Set of completed item identifiers built by getCourseProgress
CompletedItemsIds(course, up) ==
    { (IF up[i].subsection_id # NullId THEN up[i].subsection_id ELSE up[i].lesson_id) :
        i \in {j \in 1..Len(up) : up[j].course_id = course.id /\ up[j].completed_at # NullTime} }
    \ {NullId}

GetCourseProgress(course, up) ==
    IF course._totalItems = 0 THEN ZeroProgress
    ELSE LET completedCount == Cardinality(CompletedItemsIds(course, up))
             totalCount     == course._totalItems
             percentage     == IF totalCount > 0
                               THEN RoundedPercentage(completedCount, totalCount)
                               ELSE 0
         IN  [percentage |-> percentage, completed |-> completedCount, total |-> totalCount]

\* variants of getCurrentDashboardState with one slip each, used to test
\* that the properties below depend on the order of its checks
GetCurrentDashboardState_ContractFirst(cs, up, wfs) ==
    IF ~HasCurrentCourse(cs) \/ Len(up) = 0 THEN "new-user"
    ELSE LET currentCourse == GetCurrentCourse(cs)
             progress      == GetCourseProgress(currentCourse, up)
         IN  IF currentCourse.level \notin DOMAIN wfs
             THEN (IF progress.percentage > 0 THEN "training-progress" ELSE "new-user")
             ELSE LET workflow == wfs[currentCourse.level]
                  IN  IF workflow.contract_status = "signed" THEN "subscription"
                      ELSE IF workflow.subscription_status = "active" THEN "completed"
                      ELSE IF workflow.admin_approval_status = "approved" THEN "contract"
                      ELSE IF workflow.exam_status = "passed" THEN "contract"
                      ELSE IF progress.percentage = 100 THEN "exam"
                      ELSE IF progress.percentage > 0 THEN "training-progress"
                      ELSE "new-user"

GetCurrentDashboardState_PercentageFirst(cs, up, wfs) ==
    IF ~HasCurrentCourse(cs) \/ Len(up) = 0 THEN "new-user"
    ELSE LET currentCourse == GetCurrentCourse(cs)
             progress      == GetCourseProgress(currentCourse, up)
         IN  IF currentCourse.level \notin DOMAIN wfs
             THEN (IF progress.percentage > 0 THEN "training-progress" ELSE "new-user")
             ELSE LET workflow == wfs[currentCourse.level]
                  IN  IF workflow.subscription_status = "active" THEN "completed"
                      ELSE IF workflow.contract_status = "signed" THEN "subscription"
                      ELSE IF workflow.admin_approval_status = "approved" THEN "contract"
                      ELSE IF progress.percentage = 100 THEN "exam"
                      ELSE IF workflow.exam_status = "passed" THEN "contract"
                      ELSE IF progress.percentage > 0 THEN "training-progress"
                      ELSE "new-user"

GetCurrentDashboardState_NoProgressCheck(cs, up, wfs) ==
    IF ~HasCurrentCourse(cs) THEN "new-user"
    ELSE LET currentCourse == GetCurrentCourse(cs)
             progress      == GetCourseProgress(currentCourse, up)
         IN  IF currentCourse.level \notin DOMAIN wfs
             THEN (IF progress.percentage > 0 THEN "training-progress" ELSE "new-user")
             ELSE LET workflow == wfs[currentCourse.level]
                  IN  IF workflow.subscription_status = "active" THEN "completed"
                      ELSE IF workflow.contract_status = "signed" THEN "subscription"
                      ELSE IF workflow.admin_approval_status = "approved" THEN "contract"
                      ELSE IF workflow.exam_status = "passed" THEN "contract"
                      ELSE IF progress.percentage = 100 THEN "exam"
                      ELSE IF progress.percentage > 0 THEN "training-progress"
                      ELSE "new-user"

GetCurrentDashboardState_NoWorkflowFromZero(cs, up, wfs) ==
    IF ~HasCurrentCourse(cs) \/ Len(up) = 0 THEN "new-user"
    ELSE LET currentCourse == GetCurrentCourse(cs)
             progress      == GetCourseProgress(currentCourse, up)
         IN  IF currentCourse.level \notin DOMAIN wfs
             THEN (IF progress.percentage >= 0 THEN "training-progress" ELSE "new-user")
             ELSE LET workflow == wfs[currentCourse.level]
                  IN  IF workflow.subscription_status = "active" THEN "completed"
                      ELSE IF workflow.contract_status = "signed" THEN "subscription"
                      ELSE IF workflow.admin_approval_status = "approved" THEN "contract"
                      ELSE IF workflow.exam_status = "passed" THEN "contract"
                      ELSE IF progress.percentage = 100 THEN "exam"
                      ELSE IF progress.percentage > 0 THEN "training-progress"
                      ELSE "new-user"

GetCurrentDashboardState(cs, up, wfs) ==
    IF ~HasCurrentCourse(cs) \/ Len(up) = 0 THEN "new-user"
    ELSE LET currentCourse == GetCurrentCourse(cs)
             progress      == GetCourseProgress(currentCourse, up)
         IN  IF currentCourse.level \notin DOMAIN wfs
             THEN (IF progress.percentage > 0 THEN "training-progress" ELSE "new-user")
             ELSE LET workflow == wfs[currentCourse.level]
                  IN  IF workflow.subscription_status = "active" THEN "completed"
                      ELSE IF workflow.contract_status = "signed" THEN "subscription"
                      ELSE IF workflow.admin_approval_status = "approved" THEN "contract"
                      ELSE IF workflow.exam_status = "passed" THEN "contract"
                      ELSE IF progress.percentage = 100 THEN "exam"
                      ELSE IF progress.percentage > 0 THEN "training-progress"
                      ELSE "new-user"

\* the render after a state update: the loading view, or the derived values
RenderCourseProgress(ld, cs, up) ==
    IF ~ld /\ HasCurrentCourse(cs) THEN GetCourseProgress(GetCurrentCourse(cs), up)
    ELSE ZeroProgress

RenderDashboardState(ld, cs, up, wfs) ==
    IF ld THEN "loading" ELSE GetCurrentDashboardState(cs, up, wfs)

(***************************************************************************)
(* CoursePage.fetchCourseData                                              *)
(***************************************************************************)
\* variant whose query lacks .not('completed_at', 'is', null)
CompletedRows_AnyTimestamp(rows, cid, uid) ==
    SelectSeq(rows, LAMBDA r : r.course_id = cid /\ r.user_id = uid)

\* rows of user_progress of one course and user whose completed_at is set
CompletedRows(rows, cid, uid) ==
    SelectSeq(rows, LAMBDA r : r.course_id = cid /\ r.user_id = uid /\ r.completed_at # NullTime)

\* the subsections whose section belongs to the course
SubsectionsOfCourse(course) ==
    Flatten([i \in 1..Len(course.sections) |-> course.sections[i].subsections])

\* structured branch: completed subsection identifiers and the percentage
StructuredCompleted(progressRows) ==
    {progressRows[i].subsection_id : i \in 1..Len(progressRows)} \ {NullId}

\* variant that guards the divisor instead of the result:
\* Math.round((completedCount / (totalSubsections || 1)) * 100)
StructuredProgress_Unguarded(subsectionsData, completed) ==
    LET totalSubsections == Len(subsectionsData)
        completedCount   == Cardinality(completed)
    IN  RoundedPercentage(completedCount,
                          IF totalSubsections = 0 THEN 1 ELSE totalSubsections)

StructuredProgress(subsectionsData, completed) ==
    LET totalSubsections == Len(subsectionsData)
        completedCount   == Cardinality(completed)
    IN  IF totalSubsections > 0 THEN RoundedPercentage(completedCount, totalSubsections)
        ELSE 0

\* legacy branch: completed lesson identifiers and the percentage
LegacyCompleted(progressRows) ==
    {progressRows[i].lesson_id : i \in 1..Len(progressRows)} \ {NullId}

LegacyProgress(lessonsData, completed) ==
    LET totalLessons   == Len(lessonsData)
        completedCount == Cardinality(completed)
    IN  IF totalLessons > 0 THEN RoundedPercentage(completedCount, totalLessons)
        ELSE 0

InitialCoursePage ==
    [course |-> "none", hasStructuredContent |-> FALSE, lessons |-> <<>>,
     completedItems |-> {}, courseProgress |-> 0]

\* the elements of a sequence, and the place of one of them
Elems(q) == {q[i] : i \in 1..Len(q)}

Position(q, x) == CHOOSE i \in 1..Len(q) : q[i] = x

\* a handler awaits its queries one after the other and throws at the first
\* that returns an error: the query was answered before the handler threw
Passed(queries, failAt, query) ==
    failAt = "none" \/ Position(queries, query) < Position(queries, failAt)

\* the queries of fetchCourseData: the course, its first section, its
\* subsections or its lessons, the user's completed progress rows
CourseQueries == << "courses", "sections", "items", "user_progress" >>

\* the state fetchCourseData leaves: each setter runs after its query
CoursePageLoaded(prior, courseData, lessonsTable, progressTable, uid, failAt) ==
    LET hasStructure == Len(courseData.sections) > 0
        progressRows == CompletedRows(progressTable, courseData.id, uid)
        lessonsData  == SelectSeq(lessonsTable, LAMBDA l : l.course_id = courseData.id)
        completed    == IF hasStructure THEN StructuredCompleted(progressRows)
                        ELSE LegacyCompleted(progressRows)
        progress     == IF hasStructure
                        THEN StructuredProgress(SubsectionsOfCourse(courseData), completed)
                        ELSE LegacyProgress(lessonsData, completed)
    IN  [course |-> IF Passed(CourseQueries, failAt, "courses")
                    THEN courseData.id ELSE prior.course,
         hasStructuredContent |-> IF Passed(CourseQueries, failAt, "sections")
                                  THEN hasStructure ELSE prior.hasStructuredContent,
         lessons |-> IF Passed(CourseQueries, failAt, "items") /\ ~hasStructure
                     THEN lessonsData ELSE prior.lessons,
         completedItems |-> IF Passed(CourseQueries, failAt, "user_progress")
                            THEN completed ELSE prior.completedItems,
         courseProgress |-> IF Passed(CourseQueries, failAt, "user_progress")
                            THEN progress ELSE prior.courseProgress]

(***************************************************************************)
(* UsersManagement.fetchUsers                                              *)
(***************************************************************************)
AvailableCourseIds(courseRows) ==
    {courseRows[i].id : i \in {j \in 1..Len(courseRows) : courseRows[j].is_available}}

TotalAvailableSubsections(courseRows) ==
    Len(Flatten([i \in 1..Len(courseRows) |->
                    IF courseRows[i].is_available THEN SubsectionsOfCourse(courseRows[i])
                    ELSE <<>>]))

\* number of the user's completed progress rows that name a subsection of an
\* available course
CompletedSubsections(progressRows, uid, availableCourseIds) ==
    Len(SelectSeq(progressRows,
                  LAMBDA r : /\ r.user_id = uid
                             /\ r.completed_at # NullTime
                             /\ r.subsection_id # NullId
                             /\ r.course_id \in availableCourseIds))

OverallProgress(completedSubsections, totalAvailableSubsections) ==
    IF totalAvailableSubsections > 0
    THEN RoundedPercentage(completedSubsections, totalAvailableSubsections)
    ELSE 0

UsersData(tables) ==
    LET availableCourseIds == AvailableCourseIds(tables.courses)
    IN  [i \in 1..Len(tables.profiles) |->
            [id |-> tables.profiles[i],
             total_courses |-> Cardinality(availableCourseIds),
             completed_courses |->
                 Len(SelectSeq(tables.course_completions,
                               LAMBDA c : c.user_id = tables.profiles[i]
                                          /\ c.course_id \in availableCourseIds)),
             overall_progress |->
                 OverallProgress(CompletedSubsections(tables.user_progress,
                                                      tables.profiles[i],
                                                      availableCourseIds),
                                 TotalAvailableSubsections(tables.courses))]]

(***************************************************************************)
(* ProgressAnalytics.fetchProgressData                                     *)
(***************************************************************************)
\* courseCounts[courseId] || 0
CourseCount(courseRows, cid) ==
    Len(Flatten([i \in 1..Len(courseRows) |->
                    IF courseRows[i].id = cid THEN SubsectionsOfCourse(courseRows[i])
                    ELSE <<>>]))

\* userCompletions[`${user_id}-${course_id}`] || 0
UserCompletions(progressRows, uid, cid) ==
    Len(SelectSeq(progressRows,
                  LAMBDA r : /\ r.user_id = uid /\ r.course_id = cid
                             /\ r.completed_at # NullTime /\ r.subsection_id # NullId))

\* (completedSubsections / totalSubsections) * 100, a double that is not rounded
ActualProgress(completedSubsections, totalSubsections) ==
    IF totalSubsections > 0 THEN FMul(FDiv(completedSubsections, totalSubsections), 100)
    ELSE FZero

\* texts are sequences of characters
LowerCaseOf == [A |-> "a", B |-> "b", I |-> "i", N |-> "n", U |-> "u"]

ToLowerCase(text) ==
    [i \in 1..Len(text) |-> IF text[i] \in DOMAIN LowerCaseOf THEN LowerCaseOf[text[i]]
                            ELSE text[i]]

\* String.prototype.includes
Includes(text, term) ==
    \E i \in 1..(Len(text) - Len(term) + 1) : SubSeq(text, i, i + Len(term) - 1) = term

\* the columns of the profiles and of the courses that the listing shows
ProfileDetails ==
    [u1 |-> [first_name |-> <<"A", "n">>, last_name |-> <<"B">>,
             employment_status |-> "employed"],
     u2 |-> [first_name |-> <<"I", "a", "n">>, last_name |-> <<"N">>,
             employment_status |-> "student"]]

CourseTitles == [c1 |-> <<"B", "a", "s", "i", "c", "s">>, c2 |-> <<"N", "e", "x", "t">>]

UserName(tables, uid) ==
    IF uid \in Elems(tables.profiles)
    THEN ProfileDetails[uid].first_name \o <<" ">> \o ProfileDetails[uid].last_name
    ELSE <<"U", "n", "k", "n", "o", "w", "n", " ", "U", "s", "e", "r">>

CourseTitle(tables, cid) ==
    IF cid \in {tables.courses[i].id : i \in 1..Len(tables.courses)} THEN CourseTitles[cid]
    ELSE <<"U", "n", "k", "n", "o", "w", "n", " ", "C", "o", "u", "r", "s", "e">>

EmploymentStatus(tables, uid) ==
    IF uid \in Elems(tables.profiles) THEN ProfileDetails[uid].employment_status
    ELSE "N/A"

ProcessedData(tables) ==
    [i \in 1..Len(tables.user_progress) |->
        LET item == tables.user_progress[i]
        IN  [user_id |-> item.user_id, course_id |-> item.course_id,
             user_name |-> UserName(tables, item.user_id),
             user_email |-> <<"N", "/", "A">>,
             course_title |-> CourseTitle(tables, item.course_id),
             employment_status |-> EmploymentStatus(tables, item.user_id),
             total_subsections |-> CourseCount(tables.courses, item.course_id),
             completed_subsections |->
                 UserCompletions(tables.user_progress, item.user_id, item.course_id),
             progress_percentage |->
                 ActualProgress(UserCompletions(tables.user_progress, item.user_id,
                                                item.course_id),
                                CourseCount(tables.courses, item.course_id)),
             completion_date |-> item.completed_at]]

\* filterData: the search, the course, the status and the employment filter
\* are applied one after the other
InitialFilters ==
    [searchTerm |-> <<>>, courseFilter |-> "all", statusFilter |-> "all",
     employmentFilter |-> "all"]

StatusSelects(statusFilter, item) ==
    CASE statusFilter = "completed" -> item.completion_date # NullTime
      [] statusFilter = "in-progress" ->
            item.completion_date = NullTime /\ item.progress_percentage # FZero
      [] statusFilter = "not-started" -> item.progress_percentage = FZero
      [] OTHER -> TRUE

FilterData(data, filters) ==
    LET term     == ToLowerCase(filters.searchTerm)
        searched == IF Len(filters.searchTerm) > 0
                    THEN SelectSeq(data, LAMBDA item :
                            \/ Includes(ToLowerCase(item.user_name), term)
                            \/ Includes(ToLowerCase(item.user_email), term)
                            \/ Includes(ToLowerCase(item.course_title), term))
                    ELSE data
        ofCourse == IF filters.courseFilter # "all"
                    THEN SelectSeq(searched, LAMBDA item : item.course_id = filters.courseFilter)
                    ELSE searched
        ofStatus == IF filters.statusFilter # "all"
                    THEN SelectSeq(ofCourse, LAMBDA item : StatusSelects(filters.statusFilter, item))
                    ELSE ofCourse
    IN  IF filters.employmentFilter # "all"
        THEN SelectSeq(ofStatus, LAMBDA item : item.employment_status = filters.employmentFilter)
        ELSE ofStatus

GetStatusBadge(item) ==
    IF item.completion_date # NullTime THEN "Completed"
    ELSE IF item.progress_percentage # FZero THEN "In Progress"
    ELSE "Not Started"

(***************************************************************************)
(* The handlers.  A call that was started awaits its response in pending;  *)
(* it resolves with the rows of the tables or with an error, and the       *)
(* component renders again after every state update.                       *)
(***************************************************************************)
Outcomes == {"ok", "error"}

CourseIds == {"c1", "c2"}

\* the subsection identifiers a route of the subsection page can name
MaxSubsectionId == 4

SubsectionIds == 1..MaxSubsectionId

UserIds == {"u1", "u2"}

\* the values an exam setting of a course is given in the form
ExamUrls == {"form-a", "form-b"}

Roles == {"student", "admin"}

\* the calls a page can have in flight: the handler and the value it captured
\* the rows of the tables the content screens start from; an order_index
\* counts from 0, and changes counts the inserts, updates and deletes since
InitialContentTables ==
    [courses |-> << [id |-> 1, title |-> "t1"] >>,
     sections |-> << [id |-> 2, course_id |-> 1, title |-> "t1", order_index |-> 0],
                     [id |-> 3, course_id |-> 1, title |-> "t1", order_index |-> 1] >>,
     subsections |-> << [id |-> 4, section_id |-> 2, title |-> "t1", order_index |-> 0],
                        [id |-> 5, section_id |-> 2, title |-> "t1", order_index |-> 1] >>,
     changes |-> 0]

InitialRows ==
    Len(InitialContentTables.courses) + Len(InitialContentTables.sections)
        + Len(InitialContentTables.subsections)

\* the number of inserts, updates and deletes the content screens may make
MaxChanges == 2

\* identifiers of rows of the content tables; the last one is never given
ContentIds == 1..(InitialRows + MaxChanges + 1)

\* the identifier the platform gives to an inserted row
NewId(tables) == InitialRows + tables.changes + 1

Calls ==
    { <<"fetchCourses", "">>, <<"fetchUserProgress", "u1">>,
      <<"fetchCertificationWorkflows", "u1">>, <<"fetchUsers", "">>,
      <<"fetchProgressData", "">> }
    \cup { <<"fetchCourseData", c>> : c \in CourseIds }
    \cup { <<"fetchSubsectionData", sid>> : sid \in SubsectionIds }
    \cup { <<"handleCompleteSubsection", sid>> : sid \in SubsectionIds }
    \cup { <<"fetchExamCourses", "">>, <<"fetchRoleUsers", "">> }
    \cup { <<"updateCourse", <<c, url>> >> : c \in CourseIds, url \in ExamUrls }
    \cup { <<"handleRoleChange", <<u, role>> >> : u \in UserIds, role \in Roles }
    \cup { <<"fetchData", "">> }
    \cup { <<handler, id>> :
             handler \in {"fetchSections", "fetchSubsections", "fetchSectionInfo",
                          "fetchExistingSubsections", "SubsectionEditor.fetchSubsectionData"},
             id \in ContentIds }

NoCalls == [c \in Calls |-> 0]

Started(p, calls) == [c \in Calls |-> IF c \in calls THEN p[c] + 1 ELSE p[c]]

Resolved(p, call) == [p EXCEPT ![call] = @ - 1]

\* the number of calls in flight
RECURSIVE SumOver(_, _)
SumOver(p, calls) ==
    IF calls = {} THEN 0
    ELSE LET c == CHOOSE x \in calls : TRUE IN p[c] + SumOver(p, calls \ {c})

Outstanding(p) == SumOver(p, {c \in Calls : p[c] > 0})

\* what a handler reports: whether a query of it failed and the toast it emitted
Report(handler, failed, toast) == [handler |-> handler, failed |-> failed, toast |-> toast]

NoReport == Report("none", FALSE, "none")

\* the calls the mount effect of a page starts
MountCalls(pg, u, cid, sid) ==
    CASE pg = "dashboard" ->
            { <<"fetchCourses", "">> }
            \cup (IF u # NoUser
                  THEN { <<"fetchUserProgress", u>>, <<"fetchCertificationWorkflows", u>> }
                  ELSE {})
      [] pg = "course" -> IF u # NoUser THEN { <<"fetchCourseData", cid>> } ELSE {}
      [] pg = "subsection" -> { <<"fetchSubsectionData", sid>> }
      [] pg = "exam" -> { <<"fetchExamCourses", "">> }
      [] pg = "roles" -> { <<"fetchRoleUsers", "">> }
      [] pg = "users" -> { <<"fetchUsers", "">> }
      [] pg = "analytics" -> { <<"fetchProgressData", "">> }
      [] pg = "content" -> { <<"fetchData", "">> }
      [] OTHER -> {}

\* the session's user becomes known: the effect of the page runs again
Login ==
    /\ page \in {"dashboard", "subsection"}
    /\ user = NoUser
    /\ user' = "u1"
    /\ pending' = Started(pending, MountCalls(page, "u1", courseId, subsectionId))
    /\ lastCall' = Report("useEffect", FALSE, "none")
    /\ UNCHANGED << contentVars, db, page, courseId, loading, learnerVars, adminVars >>

FetchCourses ==
    /\ page = "dashboard"
    /\ pending[<<"fetchCourses", "">>] > 0
    /\ \E outcome \in Outcomes :
         LET newCourses == IF outcome = "ok"
                           THEN CoursesWithTotals(OrderByLevel(db.courses, 1))
                           ELSE courses
         IN  /\ courses' = newCourses
             /\ loading' = FALSE
             /\ courseProgress' = RenderCourseProgress(FALSE, newCourses, userProgress)
             /\ dashboardState' = RenderDashboardState(FALSE, newCourses, userProgress,
                                                      certificationWorkflows)
             /\ lastCall' = Report("fetchCourses", outcome = "error",
                                   IF outcome = "error" THEN "destructive" ELSE "none")
    /\ pending' = Resolved(pending, <<"fetchCourses", "">>)
    /\ UNCHANGED << contentVars, db, user, page, courseId, userProgress, certificationWorkflows,
                    coursePage, users, progressData, adminVars >>

FetchUserProgress ==
    /\ page = "dashboard"
    /\ \E call \in Calls :
         /\ call[1] = "fetchUserProgress"
         /\ pending[call] > 0
         /\ pending' = Resolved(pending, call)
         /\ \E outcome \in Outcomes :
              LET newProgress == IF outcome = "ok"
                                 THEN UserProgressRows(db.user_progress, call[2])
                                 ELSE userProgress
              IN  /\ userProgress' = newProgress
                  /\ courseProgress' = RenderCourseProgress(loading, courses, newProgress)
                  /\ dashboardState' = RenderDashboardState(loading, courses, newProgress,
                                                           certificationWorkflows)
                  /\ lastCall' = Report("fetchUserProgress", outcome = "error", "none")
    /\ UNCHANGED << contentVars, db, user, page, courseId, courses, certificationWorkflows, loading,
                    coursePage, users, progressData, adminVars >>

FetchCertificationWorkflows ==
    /\ page = "dashboard"
    /\ \E call \in Calls :
         /\ call[1] = "fetchCertificationWorkflows"
         /\ pending[call] > 0
         /\ pending' = Resolved(pending, call)
         /\ \E outcome \in Outcomes :
              LET newWorkflows ==
                      IF outcome = "ok"
                      THEN WorkflowsByLevel(SelectSeq(db.certification_workflows,
                                                      LAMBDA w : w.user_id = call[2]))
                      ELSE certificationWorkflows
              IN  /\ certificationWorkflows' = newWorkflows
                  /\ dashboardState' = RenderDashboardState(loading, courses, userProgress,
                                                           newWorkflows)
                  /\ lastCall' = Report("fetchCertificationWorkflows", outcome = "error",
                                        "none")
    /\ UNCHANGED << contentVars, db, user, page, courseId, courses, userProgress, loading,
                    courseProgress, coursePage, users, progressData, adminVars >>

\* the course page is opened for another course: its effect runs again
MaxOutstanding == 1

NavigateCourse ==
    /\ page = "course"
    /\ user # NoUser
    /\ \E cid \in CourseIds \ {courseId} :
         /\ Outstanding(pending) < MaxOutstanding
         /\ courseId' = cid
         /\ pending' = Started(pending, MountCalls(page, user, cid, subsectionId))
    /\ lastCall' = Report("useEffect", FALSE, "none")
    /\ UNCHANGED << contentVars, db, user, page, loading, learnerVars, adminVars >>

\* .single() returns an error when no row has the identifier
FetchCourseData ==
    /\ page = "course"
    /\ \E call \in Calls :
         /\ call[1] = "fetchCourseData"
         /\ pending[call] > 0
         /\ pending' = Resolved(pending, call)
         /\ \E failAt \in {"none"} \cup Elems(CourseQueries) :
              LET found  == SelectSeq(db.courses, LAMBDA c : c.id = call[2])
                  thrown == IF Len(found) = 1 THEN failAt ELSE "courses"
              IN  /\ coursePage' = IF Len(found) = 1
                                    THEN CoursePageLoaded(coursePage, found[1], db.lessons,
                                                          db.user_progress, user, thrown)
                                    ELSE coursePage
                  /\ lastCall' = Report("fetchCourseData", thrown # "none",
                                        IF thrown # "none" THEN "destructive" ELSE "none")
    /\ loading' = FALSE
    /\ UNCHANGED << contentVars, db, user, page, courseId, courses, userProgress,
                    certificationWorkflows, courseProgress, dashboardState, users,
                    progressData, adminVars >>

FetchUsers ==
    /\ page = "users"
    /\ pending[<<"fetchUsers", "">>] > 0
    /\ \E outcome \in Outcomes :
         /\ users' = IF outcome = "ok" THEN UsersData(db) ELSE users
         /\ lastCall' = Report("fetchUsers", outcome = "error",
                               IF outcome = "error" THEN "destructive" ELSE "none")
    /\ pending' = Resolved(pending, <<"fetchUsers", "">>)
    /\ loading' = FALSE
    /\ UNCHANGED << contentVars, db, user, page, courseId, courses, userProgress,
                    certificationWorkflows, courseProgress, dashboardState, coursePage,
                    progressData, adminVars >>

FetchProgressData ==
    /\ page = "analytics"
    /\ pending[<<"fetchProgressData", "">>] > 0
    /\ \E outcome \in Outcomes :
         /\ progressData' = IF outcome = "ok" THEN ProcessedData(db) ELSE progressData
         /\ filteredData' = FilterData(progressData', analyticsFilters)
         /\ lastCall' = Report("fetchProgressData", outcome = "error",
                               IF outcome = "error" THEN "destructive" ELSE "none")
    /\ pending' = Resolved(pending, <<"fetchProgressData", "">>)
    /\ loading' = FALSE
    /\ UNCHANGED << contentTables, contentManagement, subsectionEditor, analyticsFilters, db, user, page, courseId, courses, userProgress,
                    certificationWorkflows, courseProgress, dashboardState, coursePage,
                    users, adminVars >>

\* the inputs of the search box and of the three selects; filterData runs in
\* an effect after each of them
SearchTerms == { <<>>, <<"I", "A">> }

SetSearchTerm ==
    /\ page = "analytics" /\ ~loading
    /\ \E term \in SearchTerms \ {analyticsFilters.searchTerm} :
         analyticsFilters' = [analyticsFilters EXCEPT !.searchTerm = term]
    /\ filteredData' = FilterData(progressData, analyticsFilters')
    /\ UNCHANGED << db, user, page, courseId, loading, learnerVars, pending, lastCall,
                    adminVars, contentTables, contentManagement, subsectionEditor >>

SetCourseFilter ==
    /\ page = "analytics" /\ ~loading
    /\ \E f \in ({"all"} \cup CourseIds) \ {analyticsFilters.courseFilter} :
         analyticsFilters' = [analyticsFilters EXCEPT !.courseFilter = f]
    /\ filteredData' = FilterData(progressData, analyticsFilters')
    /\ UNCHANGED << db, user, page, courseId, loading, learnerVars, pending, lastCall,
                    adminVars, contentTables, contentManagement, subsectionEditor >>

StatusFilters == {"all", "completed", "in-progress", "not-started"}

SetStatusFilter ==
    /\ page = "analytics" /\ ~loading
    /\ \E f \in StatusFilters \ {analyticsFilters.statusFilter} :
         analyticsFilters' = [analyticsFilters EXCEPT !.statusFilter = f]
    /\ filteredData' = FilterData(progressData, analyticsFilters')
    /\ UNCHANGED << db, user, page, courseId, loading, learnerVars, pending, lastCall,
                    adminVars, contentTables, contentManagement, subsectionEditor >>

\* the select offers the employment statuses of the loaded rows
SetEmploymentFilter ==
    /\ page = "analytics" /\ ~loading
    /\ \E f \in ({"all"} \cup {progressData[i].employment_status : i \in 1..Len(progressData)})
                  \ {analyticsFilters.employmentFilter} :
         analyticsFilters' = [analyticsFilters EXCEPT !.employmentFilter = f]
    /\ filteredData' = FilterData(progressData, analyticsFilters')
    /\ UNCHANGED << db, user, page, courseId, loading, learnerVars, pending, lastCall,
                    adminVars, contentTables, contentManagement, subsectionEditor >>

(***************************************************************************)
(* SubsectionPage                                                          *)
(***************************************************************************)
\* the rows of the sections and subsections tables; the order_index of an
\* item is the number of items that precede it in its parent
SectionRows(courseRows) ==
    UNION { { [id |-> courseRows[c].sections[k].id, course_id |-> courseRows[c].id,
               order_index |-> k - 1] : k \in 1..Len(courseRows[c].sections) } :
              c \in 1..Len(courseRows) }

SubsectionRows(courseRows) ==
    UNION { UNION { { [id |-> courseRows[c].sections[k].subsections[j],
                       section_id |-> courseRows[c].sections[k].id,
                       course_id |-> courseRows[c].id,
                       order_index |-> j - 1] :
                        j \in 1..Len(courseRows[c].sections[k].subsections) } :
                      k \in 1..Len(courseRows[c].sections) } :
              c \in 1..Len(courseRows) }

\* the answers the subsections query of the course may give: the subsections
\* of the sections of the course ordered by their order_index, subsections
\* with the same order_index in an order the platform chooses
AllSubsectionsOrders(courseRows, cid) ==
    LET rows == {r \in SubsectionRows(courseRows) : r.course_id = cid}
        ids  == {r.id : r \in rows}
        ord(sid) == (CHOOSE r \in rows : r.id = sid).order_index
    IN  {q \in [1..Cardinality(ids) -> ids] :
            \A i, j \in 1..Cardinality(ids) :
                i < j => q[i] # q[j] /\ ord(q[i]) <= ord(q[j])}

\* the queries of fetchSubsectionData: the subsection, its section, the
\* sections of the course, their subsections, the user's progress record
SubsectionQueries ==
    << "subsections", "sections", "course_sections", "course_subsections", "user_progress" >>

\* the rows the maybeSingle() query of the progress record matches
ProgressRecordsOf(progressTable, uid, sid) ==
    SelectSeq(progressTable, LAMBDA r : r.user_id = uid /\ r.subsection_id = sid)

\* the state fetchSubsectionData leaves: each setter runs after its query,
\* and the progress record is only read for a signed-in user
SubsectionPageLoaded(prior, row, order, progressTable, uid, failAt) ==
    LET records == ProgressRecordsOf(progressTable, uid, row.id)
    IN  [subsection |-> IF Passed(SubsectionQueries, failAt, "subsections")
                        THEN row.id ELSE prior.subsection,
         section |-> IF Passed(SubsectionQueries, failAt, "sections")
                     THEN row.section_id ELSE prior.section,
         allSubsections |-> IF Passed(SubsectionQueries, failAt, "course_subsections")
                            THEN order ELSE prior.allSubsections,
         isCompleted |-> IF Passed(SubsectionQueries, failAt, "user_progress") /\ uid # NoUser
                         THEN Len(records) > 0 /\ records[1].completed_at # NullTime
                         ELSE prior.isCompleted,
         completing |-> prior.completing]

\* .single() returns an error when no row has the identifier, .maybeSingle()
\* when more than one row matches
FetchSubsectionData ==
    /\ page = "subsection"
    /\ \E call \in Calls :
         /\ call[1] = "fetchSubsectionData"
         /\ pending[call] > 0
         /\ pending' = Resolved(pending, call)
         /\ \E failAt \in {"none"} \cup Elems(SubsectionQueries),
               order \in AllSubsectionsOrders(db.courses, courseId) :
              LET found  == {r \in SubsectionRows(db.courses) : r.id = call[2]}
                  row    == CHOOSE r \in found : TRUE
                  thrown == IF found = {} THEN "subsections"
                            ELSE IF /\ failAt = "none" /\ user # NoUser
                                    /\ Len(ProgressRecordsOf(db.user_progress, user, call[2])) > 1
                                 THEN "user_progress"
                                 ELSE IF failAt = "user_progress" /\ user = NoUser
                                      THEN "none" ELSE failAt
              IN  /\ subsectionPage' =
                        IF found # {}
                        THEN SubsectionPageLoaded(subsectionPage, row, order,
                                                  db.user_progress, user, thrown)
                        ELSE subsectionPage
                  /\ lastCall' = Report("fetchSubsectionData", thrown # "none",
                                        IF thrown # "none" THEN "destructive" ELSE "none")
    /\ loading' = FALSE
    /\ UNCHANGED << contentVars, db, user, page, courseId, learnerVars, subsectionId, examManagement,
                    roleUsers, review, reviewCalls >>

\* getNextSubsection and getPreviousSubsection: findIndex gives -1 when the
\* list does not hold the subsection of the route
CurrentSubsectionIndex(allSubsections, sid) ==
    IF sid \in Elems(allSubsections) THEN Position(allSubsections, sid) - 1 ELSE 0 - 1

GetNextSubsection(allSubsections, sid) ==
    LET currentIndex == CurrentSubsectionIndex(allSubsections, sid)
    IN  IF currentIndex < Len(allSubsections) - 1 THEN allSubsections[currentIndex + 2]
        ELSE NullId

GetPreviousSubsection(allSubsections, sid) ==
    LET currentIndex == CurrentSubsectionIndex(allSubsections, sid)
    IN  IF currentIndex > 0 THEN allSubsections[currentIndex] ELSE NullId

\* the page shows its content: not the loading nor the not-found view
SubsectionShown ==
    /\ page = "subsection" /\ ~loading
    /\ subsectionPage.subsection # NullId /\ subsectionPage.section # NullId

\* handleNextSubsection, handlePreviousSubsection: the route changes and the
\* effect of the page runs again
NavigateSubsection ==
    /\ SubsectionShown
    /\ \E target \in { GetNextSubsection(subsectionPage.allSubsections, subsectionId),
                        GetPreviousSubsection(subsectionPage.allSubsections, subsectionId) }
                      \ {NullId} :
         /\ Outstanding(pending) < MaxOutstanding
         /\ subsectionId' = target
         /\ pending' = Started(pending, { <<"fetchSubsectionData", target>> })
    /\ lastCall' = Report("useEffect", FALSE, "none")
    /\ UNCHANGED << contentVars, db, user, page, courseId, loading, learnerVars, subsectionPage,
                    examManagement, roleUsers, review, reviewCalls >>

\* handleCompleteSubsection up to its await: the button is shown for a
\* signed-in user while the subsection is not completed, and is disabled
\* while completing
MaxProgressRows == 3

CompleteSubsectionStart ==
    /\ SubsectionShown
    /\ user # NoUser
    /\ ~subsectionPage.isCompleted /\ ~subsectionPage.completing
    /\ Len(db.user_progress) < MaxProgressRows
    /\ subsectionPage' = [subsectionPage EXCEPT !.completing = TRUE]
    /\ pending' = Started(pending, { <<"handleCompleteSubsection", subsectionPage.subsection>> })
    /\ lastCall' = Report("handleCompleteSubsection", FALSE, "none")
    /\ UNCHANGED << contentVars, db, user, page, courseId, loading, learnerVars, subsectionId,
                    examManagement, roleUsers, review, reviewCalls >>

\* variant that marks the subsection completed before it looks at the error
SubsectionPageCompleted_Optimistic(prior, outcome) ==
    [prior EXCEPT !.isCompleted = TRUE, !.completing = FALSE]

\* the state handleCompleteSubsection leaves after the upsert
SubsectionPageCompleted(prior, outcome) ==
    [prior EXCEPT !.isCompleted = IF outcome = "ok" THEN TRUE ELSE @,
                  !.completing = FALSE]

\* handleCompleteSubsection from its await on: the upsert names no row, so
\* it adds one
CompleteSubsectionDone ==
    /\ page = "subsection"
    /\ \E call \in Calls :
         /\ call[1] = "handleCompleteSubsection"
         /\ pending[call] > 0
         /\ pending' = Resolved(pending, call)
         /\ \E outcome \in Outcomes :
              /\ db' = IF outcome = "ok"
                       THEN [db EXCEPT !.user_progress =
                                Append(@, [user_id |-> user, course_id |-> courseId,
                                           subsection_id |-> call[2],
                                           lesson_id |-> NullId,
                                           completed_at |-> Len(db.user_progress) + 1])]
                       ELSE db
              /\ subsectionPage' = SubsectionPageCompleted(subsectionPage, outcome)
              /\ lastCall' = Report("handleCompleteSubsection", outcome = "error",
                                    IF outcome = "error" THEN "destructive" ELSE "default")
    /\ UNCHANGED << contentVars, user, page, courseId, loading, learnerVars, subsectionId,
                    examManagement, roleUsers, review, reviewCalls >>

(***************************************************************************)
(* CertificationExamManagement                                             *)
(***************************************************************************)
\* setCourses(prev => prev.map(...)): the rows of one identifier replaced
ReplaceById(rows, id, field, value) ==
    [i \in 1..Len(rows) |-> IF rows[i].id = id THEN [rows[i] EXCEPT ![field] = value]
                            ELSE rows[i]]

\* fetchCourses: the exam settings of the courses, ordered by level
ExamCoursesData(tables) ==
    LET ordered == OrderByLevel(tables.courses, 1)
    IN  [i \in 1..Len(ordered) |->
            CHOOSE r \in Elems(tables.exam_settings) : r.id = ordered[i].id]

FetchExamCourses ==
    /\ page = "exam"
    /\ pending[<<"fetchExamCourses", "">>] > 0
    /\ pending' = Resolved(pending, <<"fetchExamCourses", "">>)
    /\ \E outcome \in Outcomes :
         /\ examManagement' = [examManagement EXCEPT
                                  !.courses = IF outcome = "ok" THEN ExamCoursesData(db) ELSE @]
         /\ lastCall' = Report("fetchExamCourses", outcome = "error",
                               IF outcome = "error" THEN "destructive" ELSE "none")
    /\ loading' = FALSE
    /\ UNCHANGED << contentVars, db, user, page, courseId, learnerVars, subsectionId, subsectionPage,
                    roleUsers, review, reviewCalls >>

\* updateCourseState: a field of the form is edited
UpdateCourseState ==
    /\ page = "exam" /\ ~loading
    /\ \E i \in 1..Len(examManagement.courses), value \in ExamUrls :
         /\ examManagement.courses[i].exam_url # value
         /\ examManagement' =
               [examManagement EXCEPT
                  !.courses = ReplaceById(@, examManagement.courses[i].id, "exam_url", value)]
    /\ lastCall' = Report("updateCourseState", FALSE, "none")
    /\ UNCHANGED << contentVars, db, user, page, courseId, loading, learnerVars, pending, subsectionId,
                    subsectionPage, roleUsers, review, reviewCalls >>

\* handleSave and updateCourse up to its await: the button of a course is
\* disabled while saving names that course
UpdateCourseStart ==
    /\ page = "exam" /\ ~loading
    /\ \E i \in 1..Len(examManagement.courses) :
         LET course == examManagement.courses[i]
             call   == <<"updateCourse", <<course.id, course.exam_url>> >>
         IN  /\ examManagement.saving # course.id
             /\ Outstanding(pending) < MaxOutstanding
             /\ examManagement' = [examManagement EXCEPT !.saving = course.id]
             /\ pending' = Started(pending, {call})
    /\ lastCall' = Report("updateCourse", FALSE, "none")
    /\ UNCHANGED << contentVars, db, user, page, courseId, loading, learnerVars, subsectionId,
                    subsectionPage, roleUsers, review, reviewCalls >>

\* the state updateCourse leaves after the update
ExamManagementUpdated(prior, cid, url, outcome) ==
    [courses |-> IF outcome = "ok" THEN ReplaceById(prior.courses, cid, "exam_url", url)
                 ELSE prior.courses,
     saving |-> "none"]

UpdateCourseDone ==
    /\ page = "exam"
    /\ \E call \in Calls :
         /\ call[1] = "updateCourse"
         /\ pending[call] > 0
         /\ pending' = Resolved(pending, call)
         /\ \E outcome \in Outcomes :
              /\ db' = IF outcome = "ok"
                       THEN [db EXCEPT !.exam_settings =
                                ReplaceById(@, call[2][1], "exam_url", call[2][2])]
                       ELSE db
              /\ examManagement' = ExamManagementUpdated(examManagement, call[2][1],
                                                         call[2][2], outcome)
              /\ lastCall' = Report("updateCourse", outcome = "error",
                                    IF outcome = "error" THEN "destructive" ELSE "default")
    /\ UNCHANGED << contentVars, user, page, courseId, loading, learnerVars, subsectionId,
                    subsectionPage, roleUsers, review, reviewCalls >>

(***************************************************************************)
(* UsersManagement, the listing with roles                                 *)
(***************************************************************************)
\* fetchUsers: the profiles with the role of user_roles, 'student' without one
RoleUsersData(tables) ==
    [i \in 1..Len(tables.profiles) |->
        LET mine == SelectSeq(tables.user_roles, LAMBDA r : r.user_id = tables.profiles[i])
        IN  [id |-> tables.profiles[i],
             role |-> IF Len(mine) > 0 THEN mine[1].role ELSE "student"]]

FetchRoleUsers ==
    /\ page = "roles"
    /\ pending[<<"fetchRoleUsers", "">>] > 0
    /\ pending' = Resolved(pending, <<"fetchRoleUsers", "">>)
    /\ \E outcome \in Outcomes :
         /\ roleUsers' = IF outcome = "ok" THEN RoleUsersData(db) ELSE roleUsers
         /\ lastCall' = Report("fetchRoleUsers", outcome = "error",
                               IF outcome = "error" THEN "destructive" ELSE "none")
    /\ loading' = FALSE
    /\ UNCHANGED << contentVars, db, user, page, courseId, learnerVars, subsectionId, subsectionPage,
                    examManagement, review, reviewCalls >>

\* handleRoleChange up to its await: another role is selected for a user
RoleChangeStart ==
    /\ page = "roles" /\ ~loading
    /\ \E i \in 1..Len(roleUsers), newRole \in Roles :
         LET call == <<"handleRoleChange", <<roleUsers[i].id, newRole>> >>
         IN  /\ newRole # roleUsers[i].role
             /\ Outstanding(pending) < MaxOutstanding
             /\ pending' = Started(pending, {call})
    /\ lastCall' = Report("handleRoleChange", FALSE, "none")
    /\ UNCHANGED << contentVars, db, user, page, courseId, loading, learnerVars, adminVars >>

\* the list handleRoleChange leaves after the update
RoleUsersChanged(prior, uid, newRole, outcome) ==
    IF outcome = "ok" THEN ReplaceById(prior, uid, "role", newRole) ELSE prior

\* the update changes the rows of user_roles of the user, if there are any
RoleChangeDone ==
    /\ page = "roles"
    /\ \E call \in Calls :
         /\ call[1] = "handleRoleChange"
         /\ pending[call] > 0
         /\ pending' = Resolved(pending, call)
         /\ \E outcome \in Outcomes :
              /\ db' = IF outcome = "ok"
                       THEN [db EXCEPT !.user_roles =
                                [i \in 1..Len(@) |->
                                    IF @[i].user_id = call[2][1]
                                    THEN [@[i] EXCEPT !.role = call[2][2]] ELSE @[i]]]
                       ELSE db
              /\ roleUsers' = RoleUsersChanged(roleUsers, call[2][1], call[2][2], outcome)
              /\ lastCall' = Report("handleRoleChange", outcome = "error",
                                    IF outcome = "error" THEN "destructive" ELSE "default")
    /\ UNCHANGED << contentVars, user, page, courseId, loading, learnerVars, subsectionId,
                    subsectionPage, examManagement, review, reviewCalls >>

(***************************************************************************)
(* CertificationReview.  A call of the screen in flight is a record: the   *)
(* workflow and the decision of handleApprovalAction ("mount" for the      *)
(* fetch of the mount effect), and its stage: "invoke" while the server    *)
(* action is awaited, "select" while the queries of                        *)
(* fetchPendingCertifications are awaited, "response" when they were       *)
(* answered with rows (or failed) and the answer is on its way.            *)
(***************************************************************************)
Decisions == {"approve", "reject"}

\* actionLoading is null: no action is loading
NoAction == <<>>

\* the key handleApprovalAction stores in actionLoading
ActionKey(uid, level) == <<uid, level>>

ReviewCall(id, uid, level, action, stage, rows, failed) ==
    [id |-> id, user_id |-> uid, level |-> level, action |-> action, stage |-> stage,
     rows |-> rows, failed |-> failed]

MountReviewCall == ReviewCall(0, "", 0, "mount", "select", <<>>, FALSE)

\* an identifier no call in flight has
FreshCallId(calls) == CHOOSE n \in 1..(Cardinality(calls) + 1) : \A c \in calls : c.id # n

Reverse(q) == [i \in 1..Len(q) |-> q[Len(q) + 1 - i]]

\* variant whose query lacks .eq('admin_approval_status', 'pending')
PendingCertifications_AllRows(workflowTable) == Reverse(workflowTable)

\* the workflows query of fetchPendingCertifications: the rows waiting for a
\* decision, the latest first
PendingCertifications(workflowTable) ==
    Reverse(SelectSeq(workflowTable, LAMBDA w : w.admin_approval_status = "pending"))

\* the server action, as the specification describes it: it applies the
\* decision to the workflow of the user and level
HandleAdminCertificationAction(workflowTable, uid, level, action) ==
    [i \in 1..Len(workflowTable) |->
        IF workflowTable[i].user_id = uid /\ workflowTable[i].level = level
        THEN [workflowTable[i] EXCEPT
                 !.admin_approval_status = IF action = "approve" THEN "approved"
                                           ELSE "rejected"]
        ELSE workflowTable[i]]

\* the queries of fetchPendingCertifications
PendingQueries == << "certification_workflows", "profiles" >>

\* the platform answers the queries of fetchPendingCertifications
PendingCertificationsAnswered ==
    /\ page = "review"
    /\ \E c \in reviewCalls :
         /\ c.stage = "select"
         /\ \E failAt \in {"none"} \cup Elems(PendingQueries) :
              reviewCalls' =
                  (reviewCalls \ {c})
                  \cup { [c EXCEPT !.stage = "response",
                                   !.rows = IF failAt = "none"
                                            THEN PendingCertifications(db.certification_workflows)
                                            ELSE <<>>,
                                   !.failed = failAt # "none"] }
    /\ UNCHANGED << contentVars, db, user, page, courseId, loading, learnerVars, pending, lastCall,
                    subsectionId, subsectionPage, examManagement, roleUsers, review >>

\* fetchPendingCertifications from its awaits on, and the finally block of
\* the handleApprovalAction that awaited it
FetchPendingCertifications ==
    /\ page = "review"
    /\ \E c \in reviewCalls :
         /\ c.stage = "response"
         /\ reviewCalls' = reviewCalls \ {c}
         /\ review' = [workflows |-> IF c.failed THEN review.workflows ELSE c.rows,
                       actionLoading |-> IF c.action = "mount" THEN review.actionLoading
                                         ELSE NoAction]
         /\ lastCall' = Report("fetchPendingCertifications", c.failed,
                               IF c.failed THEN "destructive" ELSE "none")
    /\ loading' = FALSE
    /\ UNCHANGED << contentVars, db, user, page, courseId, learnerVars, pending, subsectionId,
                    subsectionPage, examManagement, roleUsers >>

\* handleApprovalAction up to its await: the buttons of a workflow are
\* disabled while actionLoading holds its key
MaxReviewCalls == 2

ApprovalActionStart ==
    /\ page = "review" /\ ~loading
    /\ Cardinality(reviewCalls) < MaxReviewCalls
    /\ \E i \in 1..Len(review.workflows), action \in Decisions :
         LET workflow == review.workflows[i]
         IN  /\ review.actionLoading # ActionKey(workflow.user_id, workflow.level)
             /\ review' = [review EXCEPT
                              !.actionLoading = ActionKey(workflow.user_id, workflow.level)]
             /\ reviewCalls' =
                   reviewCalls \cup { ReviewCall(FreshCallId(reviewCalls), workflow.user_id,
                                                 workflow.level, action, "invoke", <<>>,
                                                 FALSE) }
    /\ lastCall' = Report("handleApprovalAction", FALSE, "none")
    /\ UNCHANGED << contentVars, db, user, page, courseId, loading, learnerVars, pending, subsectionId,
                    subsectionPage, examManagement, roleUsers >>

\* the server action returns: on success the list is fetched again, on an
\* error the handler ends
ApprovalActionInvoked ==
    /\ page = "review"
    /\ \E c \in reviewCalls :
         /\ c.stage = "invoke"
         /\ \E outcome \in Outcomes :
              /\ db' = IF outcome = "ok"
                       THEN [db EXCEPT !.certification_workflows =
                                HandleAdminCertificationAction(@, c.user_id, c.level,
                                                               c.action)]
                       ELSE db
              /\ reviewCalls' = IF outcome = "ok"
                                THEN (reviewCalls \ {c}) \cup { [c EXCEPT !.stage = "select"] }
                                ELSE reviewCalls \ {c}
              /\ review' = IF outcome = "ok" THEN review
                           ELSE [review EXCEPT !.actionLoading = NoAction]
              /\ lastCall' = Report("handleApprovalAction", outcome = "error",
                                    IF outcome = "error" THEN "destructive" ELSE "default")
    /\ UNCHANGED << contentVars, user, page, courseId, loading, learnerVars, pending, subsectionId,
                    subsectionPage, examManagement, roleUsers >>

(***************************************************************************)
(* ContentManagement.  A submit or a delete is one step: its request, the  *)
(* state updates that follow it and the start of the fetch that refreshes  *)
(* the list; the text typed into a form is chosen when it is submitted.    *)
(***************************************************************************)
\* the title typed into a form
Titles == {"t2"}

EmptyCourseForm == [title |-> ""]

EmptySectionForm == [title |-> "", course_id |-> NullId, order_index |-> 0]

\* editingCourse and editingSection hold the identifier of the row, the only
\* field of it the handlers use
InitialContentManagement ==
    [courses |-> <<>>, sections |-> <<>>, subsections |-> <<>>,
     selectedCourse |-> NullId, selectedSection |-> NullId,
     editingCourse |-> NullId, editingSection |-> NullId,
     showCourseForm |-> FALSE, showSectionForm |-> FALSE,
     courseForm |-> EmptyCourseForm, sectionForm |-> EmptySectionForm]

\* the answers of a query with .order('order_index'): rows with the same
\* order_index come in an order the platform chooses
SortedByOrderIndex(rows) ==
    LET S == Elems(rows)
    IN  {q \in [1..Cardinality(S) -> S] :
            \A i, j \in 1..Cardinality(S) :
                i < j => q[i] # q[j] /\ q[i].order_index <= q[j].order_index}

\* .update(values).eq('id', id) and .delete().eq('id', id)
UpdateRow(rows, id, values) ==
    [i \in 1..Len(rows) |->
        IF rows[i].id = id
        THEN [f \in DOMAIN rows[i] |-> IF f \in DOMAIN values THEN values[f] ELSE rows[i][f]]
        ELSE rows[i]]

DeleteRow(rows, id) == SelectSeq(rows, LAMBDA r : r.id # id)

\* .insert([values]): the platform adds the identifier
InsertRow(rows, id, values) ==
    Append(rows, [f \in {"id"} \cup DOMAIN values |-> IF f = "id" THEN id ELSE values[f]])

\* the page shows its lists and no dialog is open
ContentShown ==
    /\ page = "content" /\ ~loading
    /\ ~contentManagement.showCourseForm /\ ~contentManagement.showSectionForm

FetchData ==
    /\ page = "content"
    /\ pending[<<"fetchData", "">>] > 0
    /\ \E outcome \in Outcomes :
         /\ contentManagement' =
               IF outcome = "ok"
               THEN [contentManagement EXCEPT !.courses = contentTables.courses]
               ELSE contentManagement
         /\ lastCall' = Report("fetchData", outcome = "error",
                               IF outcome = "error" THEN "destructive" ELSE "none")
    /\ pending' = Resolved(pending, <<"fetchData", "">>)
    /\ loading' = FALSE
    /\ UNCHANGED << db, user, page, courseId, learnerVars, adminVars, contentTables,
                    subsectionEditor, analyticsFilters, filteredData >>

\* the select of the Sections tab: the effect on selectedCourse fetches the
\* sections
SelectCourse ==
    /\ ContentShown
    /\ Outstanding(pending) < MaxOutstanding
    /\ \E i \in 1..Len(contentManagement.courses) :
         LET cid == contentManagement.courses[i].id
         IN  /\ cid # contentManagement.selectedCourse
             /\ contentManagement' = [contentManagement EXCEPT !.selectedCourse = cid]
             /\ pending' = Started(pending, { <<"fetchSections", cid>> })
    /\ lastCall' = Report("setSelectedCourse", FALSE, "none")
    /\ UNCHANGED << db, user, page, courseId, loading, learnerVars, adminVars,
                    contentTables, subsectionEditor, analyticsFilters, filteredData >>

FetchSections ==
    /\ page = "content"
    /\ \E call \in Calls :
         /\ call[1] = "fetchSections"
         /\ pending[call] > 0
         /\ pending' = Resolved(pending, call)
         /\ \E outcome \in Outcomes,
               data \in SortedByOrderIndex(SelectSeq(contentTables.sections,
                                                     LAMBDA r : r.course_id = call[2])) :
              /\ contentManagement' =
                    IF outcome = "ok" THEN [contentManagement EXCEPT !.sections = data]
                    ELSE contentManagement
              /\ lastCall' = Report("fetchSections", outcome = "error",
                                    IF outcome = "error" THEN "destructive" ELSE "none")
    /\ UNCHANGED << db, user, page, courseId, loading, learnerVars, adminVars,
                    contentTables, subsectionEditor, analyticsFilters, filteredData >>

\* the select of the Subsections tab
SelectSection ==
    /\ ContentShown
    /\ Outstanding(pending) < MaxOutstanding
    /\ \E i \in 1..Len(contentManagement.sections) :
         LET sid == contentManagement.sections[i].id
         IN  /\ sid # contentManagement.selectedSection
             /\ contentManagement' = [contentManagement EXCEPT !.selectedSection = sid]
             /\ pending' = Started(pending, { <<"fetchSubsections", sid>> })
    /\ lastCall' = Report("setSelectedSection", FALSE, "none")
    /\ UNCHANGED << db, user, page, courseId, loading, learnerVars, adminVars,
                    contentTables, subsectionEditor, analyticsFilters, filteredData >>

FetchSubsections ==
    /\ page = "content"
    /\ \E call \in Calls :
         /\ call[1] = "fetchSubsections"
         /\ pending[call] > 0
         /\ pending' = Resolved(pending, call)
         /\ \E outcome \in Outcomes,
               data \in SortedByOrderIndex(SelectSeq(contentTables.subsections,
                                                     LAMBDA r : r.section_id = call[2])) :
              /\ contentManagement' =
                    IF outcome = "ok" THEN [contentManagement EXCEPT !.subsections = data]
                    ELSE contentManagement
              /\ lastCall' = Report("fetchSubsections", outcome = "error",
                                    IF outcome = "error" THEN "destructive" ELSE "none")
    /\ UNCHANGED << db, user, page, courseId, loading, learnerVars, adminVars,
                    contentTables, subsectionEditor, analyticsFilters, filteredData >>

\* the Add Course button
AddCourse ==
    /\ ContentShown
    /\ contentManagement' = [contentManagement EXCEPT !.showCourseForm = TRUE]
    /\ lastCall' = Report("Add Course", FALSE, "none")
    /\ UNCHANGED << db, user, page, courseId, loading, learnerVars, pending, adminVars,
                    contentTables, subsectionEditor, analyticsFilters, filteredData >>

HandleEditCourse ==
    /\ ContentShown
    /\ \E i \in 1..Len(contentManagement.courses) :
         LET course == contentManagement.courses[i]
         IN  contentManagement' =
                 [contentManagement EXCEPT !.editingCourse = course.id,
                                           !.courseForm = [title |-> course.title],
                                           !.showCourseForm = TRUE]
    /\ lastCall' = Report("handleEditCourse", FALSE, "none")
    /\ UNCHANGED << db, user, page, courseId, loading, learnerVars, pending, adminVars,
                    contentTables, subsectionEditor, analyticsFilters, filteredData >>

\* the Cancel button of the course form, and closing its dialog
CancelCourseForm ==
    /\ page = "content" /\ contentManagement.showCourseForm
    /\ contentManagement' = [contentManagement EXCEPT !.showCourseForm = FALSE]
    /\ lastCall' = Report("Cancel", FALSE, "none")
    /\ UNCHANGED << db, user, page, courseId, loading, learnerVars, pending, adminVars,
                    contentTables, subsectionEditor, analyticsFilters, filteredData >>

\* the state handleCourseSubmit and handleSectionSubmit leave after a success
FormsClosed(prior, form) ==
    IF form = "course"
    THEN [prior EXCEPT !.showCourseForm = FALSE, !.editingCourse = NullId,
                       !.courseForm = EmptyCourseForm]
    ELSE [prior EXCEPT !.showSectionForm = FALSE, !.editingSection = NullId,
                       !.sectionForm = EmptySectionForm]

\* the courses table after handleCourseSubmit with a form
CourseSubmitted(tables, editingCourse, form) ==
    IF editingCourse # NullId
    THEN [tables EXCEPT !.courses = UpdateRow(@, editingCourse, form), !.changes = @ + 1]
    ELSE [tables EXCEPT !.courses = InsertRow(@, NewId(tables), form), !.changes = @ + 1]

HandleCourseSubmit ==
    /\ Outstanding(pending) < MaxOutstanding
    /\ page = "content" /\ contentManagement.showCourseForm
    /\ contentTables.changes < MaxChanges
    /\ \E outcome \in Outcomes, title \in Titles :
         LET form == [contentManagement.courseForm EXCEPT !.title = title]
         IN  IF outcome = "ok"
             THEN /\ contentTables' = CourseSubmitted(contentTables,
                                                      contentManagement.editingCourse, form)
                  /\ contentManagement' = FormsClosed(contentManagement, "course")
                  /\ pending' = Started(pending, { <<"fetchData", "">> })
                  /\ lastCall' = Report("handleCourseSubmit", FALSE, "default")
             ELSE /\ lastCall' = Report("handleCourseSubmit", TRUE, "destructive")
                  /\ UNCHANGED << contentTables, contentManagement, pending >>
    /\ UNCHANGED << db, user, page, courseId, loading, learnerVars, adminVars,
                    subsectionEditor, analyticsFilters, filteredData >>

\* the Add Section button, disabled while no course is selected
AddSection ==
    /\ ContentShown
    /\ contentManagement.selectedCourse # NullId
    /\ contentManagement' = [contentManagement EXCEPT !.showSectionForm = TRUE]
    /\ lastCall' = Report("Add Section", FALSE, "none")
    /\ UNCHANGED << db, user, page, courseId, loading, learnerVars, pending, adminVars,
                    contentTables, subsectionEditor, analyticsFilters, filteredData >>

HandleEditSection ==
    /\ ContentShown
    /\ contentManagement.selectedCourse # NullId
    /\ \E i \in 1..Len(contentManagement.sections) :
         LET section == contentManagement.sections[i]
         IN  contentManagement' =
                 [contentManagement EXCEPT
                     !.editingSection = section.id,
                     !.sectionForm = [title |-> section.title,
                                      course_id |-> section.course_id,
                                      order_index |-> section.order_index],
                     !.showSectionForm = TRUE]
    /\ lastCall' = Report("handleEditSection", FALSE, "none")
    /\ UNCHANGED << db, user, page, courseId, loading, learnerVars, pending, adminVars,
                    contentTables, subsectionEditor, analyticsFilters, filteredData >>

CancelSectionForm ==
    /\ page = "content" /\ contentManagement.showSectionForm
    /\ contentManagement' = [contentManagement EXCEPT !.showSectionForm = FALSE]
    /\ lastCall' = Report("Cancel", FALSE, "none")
    /\ UNCHANGED << db, user, page, courseId, loading, learnerVars, pending, adminVars,
                    contentTables, subsectionEditor, analyticsFilters, filteredData >>

\* formData of handleSectionSubmit
SectionFormData(prior, title) ==
    [prior.sectionForm EXCEPT !.title = title, !.course_id = prior.selectedCourse,
                              !.order_index = Len(prior.sections)]

SectionSubmitted(tables, editingSection, formData) ==
    IF editingSection # NullId
    THEN [tables EXCEPT !.sections = UpdateRow(@, editingSection, formData),
                        !.changes = @ + 1]
    ELSE [tables EXCEPT !.sections = InsertRow(@, NewId(tables), formData), !.changes = @ + 1]

HandleSectionSubmit ==
    /\ Outstanding(pending) < MaxOutstanding
    /\ page = "content" /\ contentManagement.showSectionForm
    /\ contentTables.changes < MaxChanges
    /\ \E outcome \in Outcomes, title \in Titles :
         LET formData == SectionFormData(contentManagement, title)
         IN  IF outcome = "ok"
             THEN /\ contentTables' = SectionSubmitted(contentTables,
                                                       contentManagement.editingSection,
                                                       formData)
                  /\ contentManagement' = FormsClosed(contentManagement, "section")
                  /\ pending' = Started(pending,
                                        { <<"fetchSections", contentManagement.selectedCourse>> })
                  /\ lastCall' = Report("handleSectionSubmit", FALSE, "default")
             ELSE /\ lastCall' = Report("handleSectionSubmit", TRUE, "destructive")
                  /\ UNCHANGED << contentTables, contentManagement, pending >>
    /\ UNCHANGED << db, user, page, courseId, loading, learnerVars, adminVars,
                    subsectionEditor, analyticsFilters, filteredData >>

\* handleDeleteSection once the confirm dialog was accepted; the request
\* deletes the row of the section
HandleDeleteSection ==
    /\ Outstanding(pending) < MaxOutstanding
    /\ ContentShown
    /\ contentManagement.selectedCourse # NullId
    /\ contentTables.changes < MaxChanges
    /\ \E i \in 1..Len(contentManagement.sections), outcome \in Outcomes :
         IF outcome = "ok"
         THEN /\ contentTables' = [contentTables EXCEPT
                     !.sections = DeleteRow(@, contentManagement.sections[i].id),
                     !.changes = @ + 1]
              /\ pending' = Started(pending,
                                    { <<"fetchSections", contentManagement.selectedCourse>> })
              /\ lastCall' = Report("handleDeleteSection", FALSE, "default")
         ELSE /\ lastCall' = Report("handleDeleteSection", TRUE, "destructive")
              /\ UNCHANGED << contentTables, pending >>
    /\ UNCHANGED << db, user, page, courseId, loading, learnerVars, adminVars,
                    contentManagement, subsectionEditor, analyticsFilters, filteredData >>

HandleDeleteSubsection ==
    /\ Outstanding(pending) < MaxOutstanding
    /\ ContentShown
    /\ contentManagement.selectedSection # NullId
    /\ contentTables.changes < MaxChanges
    /\ \E i \in 1..Len(contentManagement.subsections), outcome \in Outcomes :
         IF outcome = "ok"
         THEN /\ contentTables' = [contentTables EXCEPT
                     !.subsections = DeleteRow(@, contentManagement.subsections[i].id),
                     !.changes = @ + 1]
              /\ pending' = Started(pending,
                                    { <<"fetchSubsections", contentManagement.selectedSection>> })
              /\ lastCall' = Report("handleDeleteSubsection", FALSE, "default")
         ELSE /\ lastCall' = Report("handleDeleteSubsection", TRUE, "destructive")
              /\ UNCHANGED << contentTables, pending >>
    /\ UNCHANGED << db, user, page, courseId, loading, learnerVars, adminVars,
                    contentManagement, subsectionEditor, analyticsFilters, filteredData >>

(***************************************************************************)
(* SubsectionEditor                                                        *)
(***************************************************************************)
\* the state of a mounted editor; subsectionId is the search parameter, null
\* in create mode
InitialEditor(sectionId, editedId) ==
    [sectionId |-> sectionId, subsectionId |-> editedId, saving |-> FALSE,
     sectionInfo |-> NullId, existingSubsections |-> 0,
     formData |-> [title |-> "", section_id |-> sectionId, order_index |-> 0]]

IsEditing(editor) == editor.subsectionId # NullId

\* the calls the effect on [sectionId, subsectionId] starts
EditorMountCalls(editor) ==
    IF editor.sectionId = NullId THEN {}
    ELSE { <<"fetchSectionInfo", editor.sectionId>>,
           <<"fetchExistingSubsections", editor.sectionId>> }
         \cup (IF IsEditing(editor)
               THEN { <<"SubsectionEditor.fetchSubsectionData", editor.subsectionId>> }
               ELSE {})

\* handleCreateSubsection and handleEditSubsection of ContentManagement: the
\* editor is mounted and ContentManagement, with its state and calls, is gone
HandleCreateSubsection ==
    /\ ContentShown
    /\ contentManagement.selectedSection # NullId
    /\ subsectionEditor' = InitialEditor(contentManagement.selectedSection, NullId)
    /\ page' = "editor"
    /\ loading' = TRUE
    /\ pending' = Started(NoCalls, EditorMountCalls(subsectionEditor'))
    /\ contentManagement' = InitialContentManagement
    /\ lastCall' = Report("handleCreateSubsection", FALSE, "none")
    /\ UNCHANGED << db, user, courseId, learnerVars, adminVars, contentTables,
                    analyticsFilters, filteredData >>

HandleEditSubsection ==
    /\ ContentShown
    /\ contentManagement.selectedSection # NullId
    /\ \E i \in 1..Len(contentManagement.subsections) :
         subsectionEditor' = InitialEditor(contentManagement.subsections[i].section_id,
                                           contentManagement.subsections[i].id)
    /\ page' = "editor"
    /\ loading' = TRUE
    /\ pending' = Started(NoCalls, EditorMountCalls(subsectionEditor'))
    /\ contentManagement' = InitialContentManagement
    /\ lastCall' = Report("handleEditSubsection", FALSE, "none")
    /\ UNCHANGED << db, user, courseId, learnerVars, adminVars, contentTables,
                    analyticsFilters, filteredData >>

\* fetchSectionInfo; the effect on [isEditing, sectionInfo] clears loading in
\* create mode once sectionInfo is set
FetchSectionInfo ==
    /\ page = "editor"
    /\ \E call \in Calls :
         /\ call[1] = "fetchSectionInfo"
         /\ pending[call] > 0
         /\ pending' = Resolved(pending, call)
         /\ \E outcome \in Outcomes :
              LET found == \E i \in 1..Len(contentTables.sections) :
                               contentTables.sections[i].id = call[2]
                  ok    == outcome = "ok" /\ found
              IN  /\ subsectionEditor' =
                        IF ok THEN [subsectionEditor EXCEPT !.sectionInfo = call[2]]
                        ELSE subsectionEditor
                  /\ loading' = IF ~IsEditing(subsectionEditor) /\ subsectionEditor'.sectionInfo # NullId
                                THEN FALSE ELSE loading
                  /\ lastCall' = Report("fetchSectionInfo", ~ok,
                                        IF ok THEN "none" ELSE "destructive")
    /\ UNCHANGED << db, user, page, courseId, learnerVars, adminVars, contentTables,
                    contentManagement, analyticsFilters, filteredData >>

\* fetchExistingSubsections: an error is only logged
FetchExistingSubsections ==
    /\ page = "editor"
    /\ \E call \in Calls :
         /\ call[1] = "fetchExistingSubsections"
         /\ pending[call] > 0
         /\ pending' = Resolved(pending, call)
         /\ \E outcome \in Outcomes :
              /\ subsectionEditor' =
                    IF outcome = "ok"
                    THEN [subsectionEditor EXCEPT !.existingSubsections =
                             Len(SelectSeq(contentTables.subsections,
                                           LAMBDA r : r.section_id = call[2]))]
                    ELSE subsectionEditor
              /\ lastCall' = Report("fetchExistingSubsections", outcome = "error", "none")
    /\ UNCHANGED << db, user, page, courseId, loading, learnerVars, adminVars,
                    contentTables, contentManagement, analyticsFilters, filteredData >>

\* fetchSubsectionData of the editor
FetchEditedSubsection ==
    /\ page = "editor"
    /\ \E call \in Calls :
         /\ call[1] = "SubsectionEditor.fetchSubsectionData"
         /\ pending[call] > 0
         /\ pending' = Resolved(pending, call)
         /\ \E outcome \in Outcomes :
              LET found == SelectSeq(contentTables.subsections, LAMBDA r : r.id = call[2])
                  ok    == outcome = "ok" /\ Len(found) = 1
              IN  /\ subsectionEditor' =
                        IF ok
                        THEN [subsectionEditor EXCEPT !.formData =
                                 [title |-> found[1].title, section_id |-> found[1].section_id,
                                  order_index |-> found[1].order_index]]
                        ELSE subsectionEditor
                  /\ lastCall' = Report("SubsectionEditor.fetchSubsectionData", ~ok,
                                        IF ok THEN "none" ELSE "destructive")
    /\ loading' = FALSE
    /\ UNCHANGED << db, user, page, courseId, learnerVars, adminVars, contentTables,
                    contentManagement, analyticsFilters, filteredData >>

\* the editor shows its form: not the loading nor the not-found view
EditorFormShown == page = "editor" /\ ~loading /\ subsectionEditor.sectionInfo # NullId

\* submitData of handleSubmit
SubmitData(editor, title) ==
    [editor.formData EXCEPT !.title = title, !.section_id = editor.sectionId,
                            !.order_index = IF IsEditing(editor) THEN @
                                            ELSE editor.existingSubsections]

SubsectionSubmitted(tables, editor, submitData) ==
    IF IsEditing(editor)
    THEN [tables EXCEPT !.subsections = UpdateRow(@, editor.subsectionId, submitData),
                        !.changes = @ + 1]
    ELSE [tables EXCEPT !.subsections = InsertRow(@, NewId(tables), submitData),
                        !.changes = @ + 1]

\* handleSubmit: after a success ContentManagement is mounted again and the
\* editor is gone
HandleSubmit ==
    /\ EditorFormShown
    /\ contentTables.changes < MaxChanges
    /\ \E outcome \in Outcomes, title \in Titles :
         LET submitData == SubmitData(subsectionEditor, title)
         IN  IF outcome = "ok"
             THEN /\ contentTables' = SubsectionSubmitted(contentTables, subsectionEditor,
                                                          submitData)
                  /\ page' = "content"
                  /\ contentManagement' = InitialContentManagement
                  /\ loading' = TRUE
                  /\ pending' = Started(NoCalls, MountCalls("content", user, courseId,
                                                            subsectionId))
                  /\ subsectionEditor' = InitialEditor(NullId, NullId)
                  /\ lastCall' = Report("handleSubmit", FALSE, "default")
             ELSE /\ lastCall' = Report("handleSubmit", TRUE, "destructive")
                  /\ UNCHANGED << contentTables, page, contentManagement, loading, pending,
                                  subsectionEditor >>
    /\ UNCHANGED << db, user, courseId, learnerVars, adminVars, analyticsFilters,
                    filteredData >>

\* handleCancel, from the form or from the not-found view
HandleCancel ==
    /\ page = "editor" /\ ~loading
    /\ page' = "content"
    /\ contentManagement' = InitialContentManagement
    /\ loading' = TRUE
    /\ pending' = Started(NoCalls, MountCalls("content", user, courseId, subsectionId))
    /\ subsectionEditor' = InitialEditor(NullId, NullId)
    /\ lastCall' = Report("handleCancel", FALSE, "none")
    /\ UNCHANGED << db, user, courseId, learnerVars, adminVars, contentTables,
                    analyticsFilters, filteredData >>

(***************************************************************************)
(* Table contents the specifications start from.                           *)
(***************************************************************************)
Pages == {"dashboard", "course", "users", "analytics"}

Range(a, b) == [i \in 1..(b - a + 1) |-> a + i - 1]

Section(id, subsections) == [id |-> id, subsections |-> subsections]

CourseRow(id, level, available, comingSoon, sections) ==
    [id |-> id, level |-> level, is_available |-> available,
     is_coming_soon |-> comingSoon, sections |-> sections]

ProgressRow(uid, cid, subsection, lesson, completedAt) ==
    [user_id |-> uid, course_id |-> cid, subsection_id |-> subsection,
     lesson_id |-> lesson, completed_at |-> completedAt]

WorkflowRow(uid, level, exam, approval, contract, subscription) ==
    [user_id |-> uid, level |-> level, exam_status |-> exam,
     admin_approval_status |-> approval, contract_status |-> contract,
     subscription_status |-> subscription]

Lessons(cid, k) == [i \in 1..k |-> [id |-> LessonId(i), course_id |-> cid]]

Tables(courseRows, lessonRows, progressRows, workflowRows) ==
    [courses |-> courseRows, lessons |-> lessonRows, user_progress |-> progressRows,
     certification_workflows |-> workflowRows, profiles |-> <<"u1", "u2">>,
     course_completions |-> <<>>,
     exam_settings |-> [i \in 1..Len(courseRows) |->
                           [id |-> courseRows[i].id, exam_url |-> "form-a"]],
     user_roles |-> << [user_id |-> "u1", role |-> "admin"] >>]

ExamStatuses == {"pending", "passed", "failed"}
ApprovalStatuses == {"pending", "approved", "rejected"}
ContractStatuses == {"pending", "signed"}
SubscriptionStatuses == {"pending", "active"}

\* a level 2 course that is not available yet
LevelTwoCourse == CourseRow("c2", 2, FALSE, TRUE, << Section(3, <<9>>) >>)

\* course tables of the dashboard specification: no course, the level 1
\* course with no section, an empty section, one and two subsections, stored
\* after a level 2 course, not available, and the level 2 course alone
DashCourseTables ==
    { <<>>,
      << CourseRow("c1", 1, TRUE, FALSE, <<>>) >>,
      << CourseRow("c1", 1, TRUE, FALSE, << Section(1, <<>>) >>) >>,
      << CourseRow("c1", 1, TRUE, FALSE, << Section(1, <<1>>) >>) >>,
      << CourseRow("c1", 1, TRUE, FALSE, << Section(1, <<1>>), Section(2, <<2>>) >>) >>,
      << LevelTwoCourse,
         CourseRow("c1", 1, TRUE, FALSE, << Section(1, <<1>>), Section(2, <<2>>) >>) >>,
      << CourseRow("c1", 1, FALSE, TRUE, << Section(1, <<1>>), Section(2, <<2>>) >>) >>,
      << LevelTwoCourse >> }

\* progress tables of the dashboard specification
DashProgressTables ==
    { <<>>,
      << ProgressRow("u1", "c1", 1, NullId, NullTime) >>,
      << ProgressRow("u1", "c1", 1, NullId, 1) >>,
      << ProgressRow("u1", "c1", 1, NullId, 1), ProgressRow("u1", "c1", 2, NullId, 2) >>,
      << ProgressRow("u1", "c1", 1, NullId, 1), ProgressRow("u1", "c1", 1, NullId, 2),
         ProgressRow("u1", "c1", 2, NullId, NullTime) >>,
      << ProgressRow("u1", "c1", 1, NullId, 1), ProgressRow("u1", "c1", 2, NullId, 2),
         ProgressRow("u1", "c1", NullId, LessonId(1), 3) >>,
      << ProgressRow("u2", "c1", 1, NullId, 1), ProgressRow("u2", "c1", 2, NullId, 2) >>,
      << ProgressRow("u1", "c2", 9, NullId, 1) >>,
      << ProgressRow("u1", "c1", NullId, LessonId(1), 1) >> }

\* workflow tables of the dashboard specification: none, every combination of
\* the four status fields for level 1, a level 2 workflow, another user's
\* workflow, and two rows for the same level
DashWorkflowTables ==
    { <<>> }
    \cup { << WorkflowRow("u1", 1, e, a, c, s) >> :
             e \in ExamStatuses, a \in ApprovalStatuses,
             c \in ContractStatuses, s \in SubscriptionStatuses }
    \cup { << WorkflowRow("u1", 2, "passed", "approved", "signed", "active") >>,
           << WorkflowRow("u2", 1, "passed", "approved", "signed", "active") >>,
           << WorkflowRow("u1", 1, "pending", "pending", "pending", "pending"),
              WorkflowRow("u1", 1, "passed", "pending", "pending", "pending") >> }

InitialSubsectionPage ==
    [subsection |-> NullId, section |-> NullId, allSubsections |-> <<>>,
     isCompleted |-> FALSE, completing |-> FALSE]

InitialExamManagement == [courses |-> <<>>, saving |-> "none"]

InitialReview == [workflows |-> <<>>, actionLoading |-> NoAction]

InitComponents ==
    /\ courses = <<>>
    /\ userProgress = <<>>
    /\ certificationWorkflows = << >>
    /\ loading = TRUE
    /\ courseProgress = ZeroProgress
    /\ dashboardState = "loading"
    /\ coursePage = InitialCoursePage
    /\ users = <<>>
    /\ progressData = <<>>
    /\ lastCall = NoReport
    /\ subsectionPage = InitialSubsectionPage
    /\ examManagement = InitialExamManagement
    /\ roleUsers = <<>>
    /\ review = InitialReview
    /\ contentTables = InitialContentTables
    /\ contentManagement = InitialContentManagement
    /\ analyticsFilters = InitialFilters
    /\ filteredData = <<>>

\* the dashboard is mounted over some content of the tables
Init ==
    /\ db \in { Tables(c, Lessons("c1", 2), p, w) :
                  c \in DashCourseTables, p \in DashProgressTables,
                  w \in DashWorkflowTables }
    /\ user \in {NoUser, "u1"}
    /\ page = "dashboard"
    /\ courseId = "c1"
    /\ subsectionId = NullId
    /\ pending = Started(NoCalls, MountCalls(page, user, courseId, subsectionId))
    /\ reviewCalls = {}
    /\ subsectionEditor = InitialEditor(NullId, NullId)
    /\ InitComponents

Next == Login \/ FetchCourses \/ FetchUserProgress \/ FetchCertificationWorkflows

Spec == Init /\ [][Next]_vars

(***************************************************************************)
(* Progress specification: one course whose item count and whose number of *)
(* completed subsections range up to the bounds, opened in each screen.    *)
(***************************************************************************)
MaxTotal == 40
MaxCompleted == 24
MaxLessons == 3

\* the sections of a course holding the subsections 1..total; two sections
\* when there are at least two subsections, one empty section for total 0
SectionsOf(total) ==
    IF total < 2 THEN << Section(1, Range(1, total)) >>
    ELSE << Section(1, Range(1, total \div 2)), Section(2, Range(total \div 2 + 1, total)) >>

\* completed rows for the subsections 1..n of course c1
CompletedUpTo(n) == [i \in 1..n |-> ProgressRow("u1", "c1", i, NullId, i)]

\* further rows: a second completed row for subsection 1, a row that is not
\* completed, two completed legacy lessons and another user's row
MixedRows(n) ==
    << ProgressRow("u1", "c1", 1, NullId, n + 1),
       ProgressRow("u1", "c1", n + 1, NullId, NullTime),
       ProgressRow("u1", "c1", NullId, LessonId(1), n + 2),
       ProgressRow("u1", "c1", NullId, LessonId(2), n + 3),
       ProgressRow("u2", "c1", 1, NullId, n + 4) >>

ProgressTables ==
    { CompletedUpTo(n) : n \in 0..MaxCompleted }
    \cup { CompletedUpTo(n) \o MixedRows(n) : n \in 0..MaxCompleted }

ProgressDbs ==
    { Tables(<< CourseRow("c1", 1, TRUE, FALSE, SectionsOf(total)) >>, <<>>, p, <<>>) :
        total \in 0..MaxTotal, p \in ProgressTables }
    \cup
    { Tables(<< CourseRow("c1", 1, TRUE, FALSE, <<>>) >>, Lessons("c1", k), p, <<>>) :
        k \in 0..MaxLessons, p \in ProgressTables }

InitProgress ==
    /\ db \in ProgressDbs
    /\ user = "u1"
    /\ page \in Pages
    /\ courseId = "c1"
    /\ subsectionId = NullId
    /\ pending = Started(NoCalls, MountCalls(page, user, courseId, subsectionId))
    /\ reviewCalls = {}
    /\ subsectionEditor = InitialEditor(NullId, NullId)
    /\ InitComponents

NextProgress ==
    \/ FetchCourses
    \/ FetchUserProgress
    \/ FetchCertificationWorkflows
    \/ FetchCourseData
    \/ FetchUsers
    \/ FetchProgressData

SpecProgress == InitProgress /\ [][NextProgress]_vars

(***************************************************************************)
(* Pages specification: the course page, the subsection page and the admin *)
(* screens that change rows, each opened over a small content of the       *)
(* tables, with every outcome of every call.                               *)
(***************************************************************************)
AdminPages == {"course", "subsection", "exam", "roles", "review"}

\* a course with two sections and three subsections, and a course that
\* still has lessons only
PagesCourseTables ==
    { << CourseRow("c1", 1, TRUE, FALSE, << Section(1, <<1, 2>>), Section(2, <<3>>) >>),
         CourseRow("c2", 2, FALSE, TRUE, <<>>) >> }

\* progress tables: none, a record that is not completed with a completed
\* lesson, and two completed records of the same subsection
PagesProgressTables ==
    { <<>>,
      << ProgressRow("u1", "c1", 2, NullId, NullTime),
         ProgressRow("u1", "c2", NullId, LessonId(1), 2) >>,
      << ProgressRow("u1", "c1", 1, NullId, 1), ProgressRow("u1", "c1", 1, NullId, 2) >> }

\* workflow tables: two workflows waiting for a decision, and one waiting
\* after one that was approved
PagesWorkflowTables ==
    { << WorkflowRow("u1", 1, "passed", "pending", "pending", "pending"),
         WorkflowRow("u2", 1, "passed", "pending", "pending", "pending") >>,
      << WorkflowRow("u1", 1, "passed", "approved", "pending", "pending"),
         WorkflowRow("u2", 1, "passed", "pending", "pending", "pending") >> }

InitPages ==
    /\ db \in { Tables(c, Lessons("c2", 2), p, w) :
                  c \in PagesCourseTables, p \in PagesProgressTables,
                  w \in PagesWorkflowTables }
    /\ page \in AdminPages
    /\ user \in (IF page = "subsection" THEN {NoUser, "u1"} ELSE {"u1"})
    /\ courseId = "c1"
    /\ subsectionId \in (IF page = "subsection" THEN {1, MaxSubsectionId} ELSE {NullId})
    /\ pending = Started(NoCalls, MountCalls(page, user, courseId, subsectionId))
    /\ reviewCalls = (IF page = "review" THEN {MountReviewCall} ELSE {})
    /\ subsectionEditor = InitialEditor(NullId, NullId)
    /\ InitComponents

NextPages ==
    \/ Login
    \/ NavigateCourse
    \/ FetchCourseData
    \/ FetchSubsectionData
    \/ NavigateSubsection
    \/ CompleteSubsectionStart
    \/ CompleteSubsectionDone
    \/ FetchExamCourses
    \/ UpdateCourseState
    \/ UpdateCourseStart
    \/ UpdateCourseDone
    \/ FetchRoleUsers
    \/ RoleChangeStart
    \/ RoleChangeDone
    \/ PendingCertificationsAnswered
    \/ FetchPendingCertifications
    \/ ApprovalActionStart
    \/ ApprovalActionInvoked

SpecPages == InitPages /\ [][NextPages]_vars

(***************************************************************************)
(* Content specification: ContentManagement and the SubsectionEditor over  *)
(* the content tables, and the filters of ProgressAnalytics.               *)
(***************************************************************************)
ContentPages == {"content", "editor", "analytics"}

\* the editor is opened for an existing section or for one that is missing,
\* in create mode or for an existing subsection
InitContent ==
    /\ page \in ContentPages
    /\ db \in { Tables(c, Lessons("c2", 2), p, <<>>) :
                  c \in PagesCourseTables,
                  p \in (IF page = "analytics" THEN PagesProgressTables ELSE { <<>> }) }
    /\ user = "u1"
    /\ courseId = "c1"
    /\ subsectionId = NullId
    /\ subsectionEditor \in
          (IF page = "editor"
           THEN { InitialEditor(s, e) :
                    s \in { InitialContentTables.sections[1].id,
                            InitialRows + MaxChanges + 1 },
                    e \in { NullId, InitialContentTables.subsections[1].id } }
           ELSE { InitialEditor(NullId, NullId) })
    /\ pending = Started(NoCalls, IF page = "editor" THEN EditorMountCalls(subsectionEditor)
                                  ELSE MountCalls(page, user, courseId, subsectionId))
    /\ reviewCalls = {}
    /\ InitComponents

NextContent ==
    \/ FetchData
    \/ FetchSections
    \/ FetchSubsections
    \/ FetchSectionInfo
    \/ FetchExistingSubsections
    \/ FetchEditedSubsection
    \/ FetchProgressData
    \/ SelectCourse
    \/ SelectSection
    \/ AddCourse
    \/ HandleEditCourse
    \/ CancelCourseForm
    \/ HandleCourseSubmit
    \/ AddSection
    \/ HandleEditSection
    \/ CancelSectionForm
    \/ HandleSectionSubmit
    \/ HandleDeleteSection
    \/ HandleDeleteSubsection
    \/ HandleCreateSubsection
    \/ HandleEditSubsection
    \/ HandleSubmit
    \/ HandleCancel
    \/ SetSearchTerm
    \/ SetCourseFilter
    \/ SetStatusFilter
    \/ SetEmploymentFilter

SpecContent == InitContent /\ [][NextContent]_vars

(***************************************************************************)
(* Editor specification: the SubsectionEditor alone, from its mounting to  *)
(* the step that leaves it; every call eventually gets its response.       *)
(***************************************************************************)
InitEditor == InitContent /\ page = "editor"

EditorResponses == FetchSectionInfo \/ FetchExistingSubsections \/ FetchEditedSubsection

NextEditor ==
    \/ FetchSectionInfo
    \/ FetchExistingSubsections
    \/ FetchEditedSubsection
    \/ HandleSubmit
    \/ HandleCancel

SpecEditor == InitEditor /\ [][NextEditor]_vars /\ WF_vars(EditorResponses)

(***************************************************************************)
(* Properties of the certification state machine (specification Spec).     *)
(***************************************************************************)
\* the dashboard has left its loading view, so getCurrentDashboardState ran
Rendered == page = "dashboard" /\ ~loading

\* the user has progress records and there is a current course
HasProgress == HasCurrentCourse(courses) /\ Len(userProgress) > 0

\* a workflow record exists for the level of the current course
HasWorkflow ==
    HasCurrentCourse(courses) /\ GetCurrentCourse(courses).level \in DOMAIN certificationWorkflows

CurrentWorkflow == certificationWorkflows[GetCurrentCourse(courses).level]

\* the decision table of the specification, first match wins
DecisionTable(noProgress, hasWorkflow, exam, approval, contract, subscription, percentage) ==
    IF noProgress THEN "new-user"
    ELSE IF hasWorkflow /\ subscription = "active" THEN "completed"
    ELSE IF hasWorkflow /\ contract = "signed" THEN "subscription"
    ELSE IF hasWorkflow /\ (approval = "approved" \/ exam = "passed") THEN "contract"
    ELSE IF percentage = 100 THEN "exam"
    ELSE IF percentage > 0 THEN "training-progress"
    ELSE "new-user"

\* C1: for every reachable combination of progress records, workflow record
\* and completion percentage, the state returned by getCurrentDashboardState
\* is the one the first-match-wins decision table gives, rules 2-4 being
\* skipped when no workflow record exists.
C1_DecisionTable ==
    Rendered =>
        dashboardState =
            IF HasWorkflow
            THEN DecisionTable(~HasProgress, TRUE, CurrentWorkflow.exam_status,
                               CurrentWorkflow.admin_approval_status,
                               CurrentWorkflow.contract_status,
                               CurrentWorkflow.subscription_status,
                               courseProgress.percentage)
            ELSE DecisionTable(~HasProgress, FALSE, "", "", "", "",
                               courseProgress.percentage)

\* C2 as stated: a workflow with subscription_status 'active' always gives
\* `completed`, whatever the progress records are.
C2_ActiveAlwaysCompleted ==
    (Rendered /\ HasWorkflow /\ CurrentWorkflow.subscription_status = "active")
        => dashboardState = "completed"

\* C2 amended: a workflow with subscription_status 'active' gives `completed`
\* for every value of the other status fields and of the percentage, provided
\* the user has at least one progress record.
C2_ActiveCompletedWithProgress ==
    (Rendered /\ HasProgress /\ HasWorkflow
       /\ CurrentWorkflow.subscription_status = "active")
        => dashboardState = "completed"

C2_Witness ==
    /\ Rendered /\ HasProgress /\ HasWorkflow
    /\ CurrentWorkflow.subscription_status = "active"
    /\ CurrentWorkflow.contract_status = "pending"
    /\ CurrentWorkflow.exam_status = "failed"
    /\ courseProgress.percentage = 0
    /\ dashboardState = "completed"

\* none of the workflow rules 2-4 matches
NoWorkflowRuleMatches ==
    HasWorkflow =>
        /\ CurrentWorkflow.subscription_status # "active"
        /\ CurrentWorkflow.contract_status # "signed"
        /\ CurrentWorkflow.admin_approval_status # "approved"
        /\ CurrentWorkflow.exam_status # "passed"

\* C3: with progress records, a completion percentage of 100 and no matching
\* workflow rule (in particular with no workflow record) the state is `exam`.
C3_FullCompletionIsExam ==
    (Rendered /\ HasProgress /\ courseProgress.percentage = 100 /\ NoWorkflowRuleMatches)
        => dashboardState = "exam"

\* C4: a workflow with exam 'passed' and contract 'pending' whose subscription
\* is not 'active' gives `contract`, also at a completion percentage of 100.
C4_ExamPassedIsContract ==
    (Rendered /\ HasProgress /\ HasWorkflow
       /\ CurrentWorkflow.exam_status = "passed"
       /\ CurrentWorkflow.contract_status = "pending"
       /\ CurrentWorkflow.subscription_status # "active")
        => dashboardState = "contract"

C4_Witness ==
    /\ Rendered /\ HasProgress /\ HasWorkflow
    /\ CurrentWorkflow.exam_status = "passed"
    /\ CurrentWorkflow.admin_approval_status = "pending"
    /\ CurrentWorkflow.contract_status = "pending"
    /\ CurrentWorkflow.subscription_status = "pending"
    /\ courseProgress.percentage = 100
    /\ dashboardState = "contract"

\* the pipeline stages in order, and the stages whose condition holds
StageRank(stage) ==
    CASE stage = "new-user" -> 0
      [] stage = "training-progress" -> 1
      [] stage = "exam" -> 2
      [] stage = "contract" -> 3
      [] stage = "subscription" -> 4
      [] stage = "completed" -> 5

Stages == {"new-user", "training-progress", "exam", "contract", "subscription", "completed"}

StageHolds(stage) ==
    CASE stage = "new-user" -> TRUE
      [] stage = "training-progress" -> courseProgress.percentage > 0
      [] stage = "exam" -> courseProgress.percentage = 100
      [] stage = "contract" ->
            HasWorkflow /\ (CurrentWorkflow.admin_approval_status = "approved"
                            \/ CurrentWorkflow.exam_status = "passed")
      [] stage = "subscription" -> HasWorkflow /\ CurrentWorkflow.contract_status = "signed"
      [] stage = "completed" -> HasWorkflow /\ CurrentWorkflow.subscription_status = "active"

\* C5: with at least one progress record the state is the furthest pipeline
\* stage among those whose condition holds.
C5_FurthestStage ==
    (Rendered /\ HasProgress) =>
        /\ dashboardState \in Stages
        /\ StageHolds(dashboardState)
        /\ \A stage \in Stages :
              StageHolds(stage) => StageRank(stage) <= StageRank(dashboardState)

\* C6: without progress records, or without a current course, the state is
\* `new-user` whatever the workflow record contains.
C6_NoProgressIsNewUser ==
    (Rendered /\ ~HasProgress) => dashboardState = "new-user"

C6_Witness ==
    /\ Rendered /\ Len(userProgress) = 0 /\ HasWorkflow
    /\ CurrentWorkflow.subscription_status = "active"
    /\ dashboardState = "new-user"

\* C7: with no workflow record for the level of the current course the state
\* is `new-user` at 0 percent and `training-progress` strictly between 0 and
\* 100 percent.
C7_NoWorkflowStates ==
    (Rendered /\ HasProgress /\ ~HasWorkflow) =>
        /\ courseProgress.percentage = 0 => dashboardState = "new-user"
        /\ (courseProgress.percentage > 0 /\ courseProgress.percentage < 100)
              => dashboardState = "training-progress"

C7_Witness ==
    /\ Rendered /\ HasProgress /\ ~HasWorkflow
    /\ courseProgress.percentage = 50
    /\ dashboardState = "training-progress"

C7_WitnessZero ==
    /\ Rendered /\ HasProgress /\ ~HasWorkflow
    /\ courseProgress.percentage = 0
    /\ dashboardState = "new-user"

(***************************************************************************)
(* Properties of the progress calculator (specification SpecProgress).     *)
(***************************************************************************)
\* identifiers named by a completed progress record of the course: the
\* subsection, or the legacy lesson when the record names no subsection
DistinctCompleted(cid, up) ==
    {item \in {up[i].subsection_id : i \in 1..Len(up)} \cup {up[i].lesson_id : i \in 1..Len(up)} :
        /\ item # NullId
        /\ \E i \in 1..Len(up) :
              /\ up[i].course_id = cid
              /\ up[i].completed_at # NullTime
              /\ \/ up[i].subsection_id = item
                 \/ up[i].subsection_id = NullId /\ up[i].lesson_id = item}

\* round(a / b) for naturals in exact arithmetic, a half rounding up
RoundHalfUp(a, b) == (2 * a + b) \div (2 * b)

\* C8: for a course with totalCount > 0, getCourseProgress returns the number
\* of distinct completed item identifiers, the total item count and
\* percentage = round(100 * completed / total), a half rounding up.
C8_ProgressFormula ==
    (Rendered /\ HasCurrentCourse(courses) /\ GetCurrentCourse(courses)._totalItems > 0) =>
        LET course    == GetCurrentCourse(courses)
            completed == Cardinality(DistinctCompleted(course.id, userProgress))
        IN  /\ courseProgress.completed = completed
            /\ courseProgress.total = course._totalItems
            /\ courseProgress.percentage = RoundHalfUp(100 * completed, course._totalItems)

\* the course the course page shows, as a row of the courses table
ShownCourse == (SelectSeq(db.courses, LAMBDA c : c.id = coursePage.course))[1]

\* C9: in every progress computation a total item count of 0 yields the
\* percentage 0, whatever the number of completed records is.
C9_ZeroTotalIsZero ==
    /\ (Rendered /\ HasCurrentCourse(courses) /\ GetCurrentCourse(courses)._totalItems = 0)
          => courseProgress.percentage = 0
    /\ (page = "course" /\ coursePage.course # "none" /\ coursePage.hasStructuredContent
          /\ Len(SubsectionsOfCourse(ShownCourse)) = 0)
          => coursePage.courseProgress = 0
    /\ (page = "course" /\ coursePage.course # "none" /\ ~coursePage.hasStructuredContent
          /\ Len(coursePage.lessons) = 0)
          => coursePage.courseProgress = 0
    /\ \A i \in 1..Len(users) :
          TotalAvailableSubsections(db.courses) = 0 => users[i].overall_progress = 0
    /\ \A i \in 1..Len(progressData) :
          progressData[i].total_subsections = 0 => progressData[i].progress_percentage = FZero

\* an empty structured course is shown although the user has completed records
C9_Witness ==
    /\ page = "course" /\ coursePage.course # "none" /\ coursePage.hasStructuredContent
    /\ Len(SubsectionsOfCourse(ShownCourse)) = 0
    /\ Cardinality(coursePage.completedItems) > 1
    /\ coursePage.courseProgress = 0

\* completed records that may be added for the course: a subsection that is
\* already completed, a new subsection and a new legacy lesson
NewSubsectionId == MaxTotal + MaxCompleted + 2
NewLessonId == LessonId(MaxLessons + 3)

AddedRecords(cid) ==
    { [course_id |-> cid, subsection_id |-> 1, lesson_id |-> NullId, completed_at |-> 1],
      [course_id |-> cid, subsection_id |-> NewSubsectionId, lesson_id |-> NullId,
       completed_at |-> 1],
      [course_id |-> cid, subsection_id |-> NullId, lesson_id |-> NewLessonId,
       completed_at |-> 1] }

\* C10: for a fixed total, adding a completed record for the course never
\* lowers the percentage (nor the completed count) of getCourseProgress.
C10_Monotonic ==
    (Rendered /\ HasCurrentCourse(courses)) =>
        \A rec \in AddedRecords(GetCurrentCourse(courses).id) :
            LET after == GetCourseProgress(GetCurrentCourse(courses), Append(userProgress, rec))
            IN  /\ after.total = courseProgress.total
                /\ after.completed >= courseProgress.completed
                /\ after.percentage >= courseProgress.percentage

\* a new completed subsection raises a percentage that was already positive
C10_Witness ==
    /\ Rendered /\ HasCurrentCourse(courses)
    /\ courseProgress.completed > 0
    /\ \E rec \in AddedRecords(GetCurrentCourse(courses).id) :
          LET after == GetCourseProgress(GetCurrentCourse(courses), Append(userProgress, rec))
          IN  /\ after.completed = courseProgress.completed + 1
              /\ after.percentage > courseProgress.percentage

(***************************************************************************)
(* Properties of the completed counts (specification SpecProgress).        *)
(***************************************************************************)
\* the subsections named by a completed progress record of the course
CompletedSubsectionIds(cid, up) ==
    {up[i].subsection_id :
        i \in {j \in 1..Len(up) : up[j].course_id = cid /\ up[j].completed_at # NullTime}}
    \ {NullId}

\* the completed records of the course that name a subsection
CompletedSubsectionRecords(cid, up) ==
    {j \in 1..Len(up) : /\ up[j].course_id = cid /\ up[j].completed_at # NullTime
                        /\ up[j].subsection_id # NullId}

\* a further completed record for a subsection
RepeatedRecord(cid, subsection) ==
    [course_id |-> cid, subsection_id |-> subsection, lesson_id |-> NullId,
     completed_at |-> MaxCompleted + MaxTotal]

\* C11: on the dashboard a further completed record for a subsection that is
\* already in the user's completed set of the course leaves the completed
\* count and the percentage of getCourseProgress unchanged.
C11_DuplicateCountsOnce ==
    (Rendered /\ HasCurrentCourse(courses)) =>
        \A subsection \in CompletedSubsectionIds(GetCurrentCourse(courses).id, userProgress) :
            GetCourseProgress(GetCurrentCourse(courses),
                              Append(userProgress,
                                     RepeatedRecord(GetCurrentCourse(courses).id, subsection)))
                = courseProgress

\* the fetched records already hold two completed records of one subsection,
\* which count once, and a further one changes nothing
C11_Witness ==
    /\ Rendered /\ HasCurrentCourse(courses)
    /\ courseProgress.percentage > 0 /\ courseProgress.percentage < 100
    /\ LET cid == GetCurrentCourse(courses).id
       IN  /\ Cardinality(CompletedSubsectionRecords(cid, userProgress))
                 > Cardinality(CompletedSubsectionIds(cid, userProgress))
           /\ courseProgress.completed = Cardinality(DistinctCompleted(cid, userProgress))
           /\ \E subsection \in CompletedSubsectionIds(cid, userProgress) :
                 GetCourseProgress(GetCurrentCourse(courses),
                                   Append(userProgress, RepeatedRecord(cid, subsection)))
                     = courseProgress

\* the distinct (course, subsection) pairs of the completed rows of a user in
\* the table of progress records, for the courses of a set
DistinctCompletedPairs(rows, uid, cids) ==
    {<<rows[i].course_id, rows[i].subsection_id>> :
        i \in {j \in 1..Len(rows) : /\ rows[j].user_id = uid
                                    /\ rows[j].course_id \in cids
                                    /\ rows[j].completed_at # NullTime
                                    /\ rows[j].subsection_id # NullId}}

\* C12: in the admin screens the completed-subsection count of a user and
\* course (userCompletions of ProgressAnalytics, completedSubsections of
\* UsersManagement, seen through overall_progress) is the number of distinct
\* completed subsection identifiers.
C12_NoDoubleCount ==
    /\ \A i \in 1..Len(progressData) :
          progressData[i].completed_subsections =
              Cardinality(DistinctCompletedPairs(db.user_progress, progressData[i].user_id,
                                                 {progressData[i].course_id}))
    /\ \A i \in 1..Len(users) :
          users[i].overall_progress =
              OverallProgress(Cardinality(DistinctCompletedPairs(db.user_progress, users[i].id,
                                                                 AvailableCourseIds(db.courses))),
                              TotalAvailableSubsections(db.courses))

\* the progress records without those whose completion timestamp is null
CompletedOnly(rows) == SelectSeq(rows, LAMBDA r : r.completed_at # NullTime)

\* the last handler that ran was fetchCourseData and none of its queries failed
CoursePageFetched == page = "course" /\ lastCall = Report("fetchCourseData", FALSE, "none")

\* C13: a progress record whose completed_at is null contributes to no
\* completed count: the counts and percentages of getCourseProgress,
\* fetchCourseData, fetchUsers and fetchProgressData are those computed when
\* the records with a null completed_at are removed.
C13_NullNeverCounts ==
    /\ (Rendered /\ HasCurrentCourse(courses)) =>
          courseProgress = GetCourseProgress(GetCurrentCourse(courses),
                                             CompletedOnly(userProgress))
    /\ CoursePageFetched =>
          LET without == CoursePageLoaded(InitialCoursePage, ShownCourse, db.lessons,
                                          CompletedOnly(db.user_progress), user, "none")
          IN  /\ coursePage.completedItems = without.completedItems
              /\ coursePage.courseProgress = without.courseProgress
    /\ \A i \in 1..Len(users) :
          users[i].overall_progress =
              UsersData([db EXCEPT !.user_progress = CompletedOnly(@)])[i].overall_progress
    /\ \A i \in 1..Len(progressData) :
          LET row == progressData[i]
          IN  /\ row.completed_subsections =
                    UserCompletions(CompletedOnly(db.user_progress), row.user_id, row.course_id)
              /\ row.progress_percentage =
                    ActualProgress(UserCompletions(CompletedOnly(db.user_progress),
                                                   row.user_id, row.course_id),
                                   row.total_subsections)

\* the course page is shown for a user with a record of the course whose
\* completed_at is null: its subsection is not among the completed items
C13_Witness ==
    /\ CoursePageFetched
    /\ coursePage.courseProgress > 0 /\ coursePage.courseProgress < 100
    /\ \E i \in 1..Len(db.user_progress) :
          /\ db.user_progress[i].user_id = user
          /\ db.user_progress[i].course_id = coursePage.course
          /\ db.user_progress[i].completed_at = NullTime
          /\ db.user_progress[i].subsection_id \in Elems(SubsectionsOfCourse(ShownCourse))
          /\ db.user_progress[i].subsection_id \notin coursePage.completedItems

(***************************************************************************)
(* Properties of the fetches of the dashboard (specification Spec).        *)
(***************************************************************************)
\* the places (section, position) of the subsections of a row of the courses table
SubsectionPlaces(courseRow) ==
    UNION { { <<k, j>> : j \in 1..Len(courseRow.sections[k].subsections) } :
              k \in 1..Len(courseRow.sections) }

\* the row of the courses table with an identifier
CourseRowOf(cid) == (SelectSeq(db.courses, LAMBDA c : c.id = cid))[1]

\* C14: after fetchCourses succeeded, the _totalItems of every course is the
\* sum of the subsection counts of its sections, and 0 for a course with no
\* section or with sections that have no subsection.
C14_TotalIsSumOfSections ==
    (page = "dashboard" /\ lastCall = Report("fetchCourses", FALSE, "none")) =>
        /\ Len(courses) = Len(db.courses)
        /\ \A i \in 1..Len(courses) :
              LET row == CourseRowOf(courses[i].id)
              IN  /\ courses[i]._totalItems = Cardinality(SubsectionPlaces(row))
                  /\ (\A k \in 1..Len(row.sections) : Len(row.sections[k].subsections) = 0)
                        => courses[i]._totalItems = 0

\* a fetched course has two sections with subsections
C14_Witness ==
    /\ page = "dashboard" /\ lastCall = Report("fetchCourses", FALSE, "none")
    /\ \E i \in 1..Len(courses) :
          /\ Len(courses[i].sections) > 1
          /\ \A k \in 1..Len(courses[i].sections) : Len(courses[i].sections[k].subsections) > 0
          /\ courses[i]._totalItems = Cardinality(SubsectionPlaces(CourseRowOf(courses[i].id)))

\* C15: whenever a query of a handler returns an error, the handler emits a
\* destructive toast.
C15_FailureEmitsToast == lastCall.failed => lastCall.toast = "destructive"

(***************************************************************************)
(* Properties of the failure paths (specification SpecPages).              *)
(***************************************************************************)
\* a call of a handler gets its answer in the step
Answered(handler) ==
    \E call \in Calls : call[1] = handler /\ pending'[call] < pending[call]

\* C16: when a query of fetchCourseData or of fetchSubsectionData fails, at
\* whichever place of the sequence, the data state of the page (course,
\* hasStructuredContent, lessons, completedItems, courseProgress; subsection,
\* section, allSubsections, isCompleted) is the same as before the call, and
\* loading is reset.
C16_FailedLoadKeepsState ==
    [][ /\ (Answered("fetchCourseData") /\ lastCall'.failed)
             => (coursePage' = coursePage /\ ~loading')
        /\ (Answered("fetchSubsectionData") /\ lastCall'.failed)
             => (subsectionPage' = subsectionPage /\ ~loading') ]_vars

\* a handleApprovalAction in flight ends in the step
ActionEnded(c) ==
    /\ c \in reviewCalls /\ c.action # "mount"
    /\ \A d \in reviewCalls' : d.id # c.id

\* C17: a failed mutation leaves the local state unchanged and the in-flight
\* flag is cleared on both paths: when the upsert of handleCompleteSubsection,
\* the update of updateCourse, the update of handleRoleChange or the server
\* action of handleApprovalAction returns an error, isCompleted, courses, the
\* users' roles and the list of pending workflows keep their values, and
\* completing, saving and actionLoading are idle after the handler, whether
\* it succeeded or failed.
C17_FailedMutationKeepsState ==
    [][ /\ Answered("handleCompleteSubsection") =>
             /\ ~subsectionPage'.completing
             /\ lastCall'.failed => subsectionPage'.isCompleted = subsectionPage.isCompleted
        /\ Answered("updateCourse") =>
             /\ examManagement'.saving = "none"
             /\ lastCall'.failed => examManagement'.courses = examManagement.courses
        /\ Answered("handleRoleChange") =>
             (lastCall'.failed => roleUsers' = roleUsers)
        /\ \A c \in reviewCalls :
             ActionEnded(c) =>
                 /\ review'.actionLoading = NoAction
                 /\ c.stage = "invoke" => review'.workflows = review.workflows ]_vars

\* the upsert of handleCompleteSubsection failed: the subsection is still
\* not completed, completing is reset and the destructive toast was emitted
C17_Witness ==
    /\ page = "subsection"
    /\ lastCall = Report("handleCompleteSubsection", TRUE, "destructive")
    /\ ~subsectionPage.isCompleted
    /\ ~subsectionPage.completing

(***************************************************************************)
(* Properties of the concurrent fetches of the dashboard (specification    *)
(* Spec).                                                                  *)
(***************************************************************************)
\* C19: once the dashboard has left its loading view, the state it displays
\* is never one computed from the initial empty progress list or the initial
\* empty workflow map while fetchUserProgress or fetchCertificationWorkflows
\* is still outstanding, under every interleaving of the three fetches.
C19_NeverFromInitialState ==
    Rendered =>
        \A call \in Calls :
            call[1] \in {"fetchUserProgress", "fetchCertificationWorkflows"}
                => pending[call] = 0

(***************************************************************************)
(* Properties of CertificationReview (specification SpecPages).            *)
(***************************************************************************)
\* the admin_approval_status the table holds for the workflow of a row
StatusInTable(row) ==
    (CHOOSE w \in Elems(db.certification_workflows) :
        w.user_id = row.user_id /\ w.level = row.level).admin_approval_status

\* C20 as stated: the list shown after any sequence of actions, none of them
\* in flight any more, contains only workflows whose admin_approval_status
\* is 'pending', so a workflow whose decision was applied does not appear.
C20_ListOnlyPending ==
    (page = "review" /\ ~loading /\ reviewCalls = {}) =>
        \A i \in 1..Len(review.workflows) : StatusInTable(review.workflows[i]) = "pending"

\* C20 amended: the server action is invoked once with (user_id, level,
\* action); the list is fetched again only after it succeeded; when that
\* fetch succeeds, the list it sets holds only rows that were 'pending' when
\* they were read and not the workflow the action decided; when it fails the
\* list is left as it was.
C20_RefetchAfterDecision ==
    [][ \A c \in reviewCalls :
          /\ (c.stage = "invoke" /\ c \notin reviewCalls') =>
                IF lastCall'.failed
                THEN /\ ActionEnded(c)
                     /\ db' = db
                ELSE /\ [c EXCEPT !.stage = "select"] \in reviewCalls'
                     /\ db'.certification_workflows =
                            HandleAdminCertificationAction(db.certification_workflows,
                                                           c.user_id, c.level, c.action)
          /\ (c.stage = "response" /\ c \notin reviewCalls') =>
                IF c.failed
                THEN review'.workflows = review.workflows
                ELSE /\ review'.workflows = c.rows
                     /\ \A i \in 1..Len(c.rows) :
                           /\ c.rows[i].admin_approval_status = "pending"
                           /\ c.action # "mount"
                                 => ~(c.rows[i].user_id = c.user_id
                                      /\ c.rows[i].level = c.level) ]_vars

\* a workflow was rejected and the list fetched after it holds the other
\* workflow only
C20_Witness ==
    /\ page = "review" /\ ~loading /\ reviewCalls = {}
    /\ lastCall = Report("fetchPendingCertifications", FALSE, "none")
    /\ \E w \in Elems(db.certification_workflows) :
          /\ w.admin_approval_status = "rejected"
          /\ \A i \in 1..Len(review.workflows) : review.workflows[i].user_id # w.user_id
    /\ Len(review.workflows) = 1
    /\ StatusInTable(review.workflows[1]) = "pending"

(***************************************************************************)
(* Bounds of the dashboard progress (specification Spec).                  *)
(***************************************************************************)
\* the subsections the current course holds in the tables
CurrentSubsections ==
    Elems(SubsectionsOfCourse(CourseRowOf(GetCurrentCourse(courses).id)))

\* C21: the values getCourseProgress returns satisfy 0 <= completed <= total
\* and 0 <= percentage <= 100, and a learner who has completed every current
\* subsection of the course gets percentage = 100, whatever other progress
\* records (legacy lessons, subsections no longer in the course) exist.
C21_ProgressWithinBounds ==
    (Rendered /\ HasCurrentCourse(courses)) =>
        /\ 0 <= courseProgress.completed
        /\ courseProgress.completed <= courseProgress.total
        /\ 0 <= courseProgress.percentage
        /\ courseProgress.percentage <= 100
        /\ (/\ CurrentSubsections # {}
            /\ lastCall.handler # "none"
            /\ Outstanding(pending) = 0
            /\ CurrentSubsections \subseteq CompletedSubsectionIds(GetCurrentCourse(courses).id,
                                                                   userProgress))
              => courseProgress.percentage = 100

(***************************************************************************)
(* The course page against the dashboard (specification SpecProgress).     *)
(***************************************************************************)
\* the course the course page shows, as fetchCourses of the dashboard builds
\* it from the same tables
ShownCourseOnDashboard ==
    LET fetched == CoursesWithTotals(OrderByLevel(db.courses, 1))
    IN  (SelectSeq(fetched, LAMBDA c : c.id = coursePage.course))[1]

\* C22: for the same snapshot of the tables, the percentage the course page
\* shows for a course with structured content equals the percentage
\* getCourseProgress computes for that course on the dashboard.
C22_CoursePageAgreesWithDashboard ==
    (CoursePageFetched /\ coursePage.hasStructuredContent) =>
        coursePage.courseProgress =
            GetCourseProgress(ShownCourseOnDashboard,
                              UserProgressRows(db.user_progress, user)).percentage

(***************************************************************************)
(* The buttons of CertificationReview (specification SpecPages).           *)
(***************************************************************************)
\* the calls of handleApprovalAction that have not reached their finally block
ActionsInFlight == {c \in reviewCalls : c.action # "mount"}

\* C24: while an action for a workflow (user, level) is in flight the buttons
\* of that workflow are disabled, that is actionLoading holds its key, under
\* every interleaving of actions on different workflows; hence no two actions
\* are in flight for the same workflow.
C24_ButtonsDisabledWhileInFlight ==
    \A c \in ActionsInFlight :
        /\ review.actionLoading = ActionKey(c.user_id, c.level)
        /\ \A d \in ActionsInFlight :
              (d.user_id = c.user_id /\ d.level = c.level) => d = c

(***************************************************************************)
(* Previous and Next of the subsection page (specification SpecPages).     *)
(***************************************************************************)
\* the subsections of a course in course order: sections by their
\* order_index, then subsections by their order_index within the section
CourseOrder(cid) == SubsectionsOfCourse(CourseRowOf(cid))

\* C28: Previous and Next walk the subsections of the course in course order:
\* Next is absent exactly for the last subsection of that order, Previous
\* exactly for the first, and Next then Previous returns to the subsection.
C28_WalksCourseOrder ==
    (/\ SubsectionShown
     /\ lastCall = Report("fetchSubsectionData", FALSE, "none")
     /\ subsectionPage.subsection = subsectionId) =>
        LET order    == CourseOrder(courseId)
            k        == Position(order, subsectionId)
            next     == GetNextSubsection(subsectionPage.allSubsections, subsectionId)
            previous == GetPreviousSubsection(subsectionPage.allSubsections, subsectionId)
        IN  /\ next = (IF k < Len(order) THEN order[k + 1] ELSE NullId)
            /\ previous = (IF k > 1 THEN order[k - 1] ELSE NullId)
            /\ next # NullId
                  => GetPreviousSubsection(subsectionPage.allSubsections, next) = subsectionId

(***************************************************************************)
(* Properties of the content screens (specification SpecContent).          *)
(***************************************************************************)
\* the rows of a table that a step left as they were
RowsKept(before, after) ==
    \A i \in 1..Len(before) : i <= Len(after) /\ after[i] = before[i]

\* C23: submitting the course form opened through Add Course inserts a new
\* course and never updates an existing one, likewise for the section form
\* opened through Add Section: right after the Add action the editing target
\* is not set.
C23_AddNeverUpdates ==
    [][ /\ (lastCall'.handler = "Add Course") => contentManagement'.editingCourse = NullId
        /\ (lastCall'.handler = "Add Section") => contentManagement'.editingSection = NullId
        /\ (/\ lastCall.handler = "Add Course"
            /\ lastCall' = Report("handleCourseSubmit", FALSE, "default"))
              => /\ Len(contentTables'.courses) = Len(contentTables.courses) + 1
                 /\ RowsKept(contentTables.courses, contentTables'.courses)
        /\ (/\ lastCall.handler = "Add Section"
            /\ lastCall' = Report("handleSectionSubmit", FALSE, "default"))
              => /\ Len(contentTables'.sections) = Len(contentTables.sections) + 1
                 /\ RowsKept(contentTables.sections, contentTables'.sections) ]_vars

\* C25: editing an existing section through handleSectionSubmit changes its
\* title only: its order_index and its course are those it had, and the other
\* sections are left as they were.
C25_EditKeepsOrderIndex ==
    [][ (/\ page = "content"
         /\ contentManagement.editingSection # NullId
         /\ lastCall' = Report("handleSectionSubmit", FALSE, "default"))
           => /\ Len(contentTables'.sections) = Len(contentTables.sections)
              /\ \A i \in 1..Len(contentTables.sections) :
                    LET before == contentTables.sections[i]
                        after  == contentTables'.sections[i]
                    IN  IF before.id = contentManagement.editingSection
                        THEN after = [before EXCEPT !.title = after.title]
                        ELSE after = before ]_vars

\* the order_index values of the rows with the same parent are pairwise distinct
DistinctOrderIndexes(rows, parent) ==
    \A i, j \in 1..Len(rows) :
        (i < j /\ rows[i][parent] = rows[j][parent])
            => rows[i].order_index # rows[j].order_index

\* every row a step inserted received the number of rows its parent had
InsertedAtCount(before, after, parent) ==
    \A i \in 1..Len(after) :
        (\A k \in 1..Len(before) : before[k].id # after[i].id)
            => after[i].order_index =
                  Len(SelectSeq(before, LAMBDA r : r[parent] = after[i][parent]))

\* C26: a create or a delete keeps the order_index values of the sections of
\* one course, and of the subsections of one section, pairwise distinct, given
\* that the new item receives the number of items existing in its parent.
C26_OrderIndexesDistinct ==
    [][ /\ (/\ Len(contentTables'.sections) # Len(contentTables.sections)
            /\ DistinctOrderIndexes(contentTables.sections, "course_id")
            /\ InsertedAtCount(contentTables.sections, contentTables'.sections, "course_id"))
              => DistinctOrderIndexes(contentTables'.sections, "course_id")
        /\ (/\ Len(contentTables'.subsections) # Len(contentTables.subsections)
            /\ DistinctOrderIndexes(contentTables.subsections, "section_id")
            /\ InsertedAtCount(contentTables.subsections, contentTables'.subsections,
                               "section_id"))
              => DistinctOrderIndexes(contentTables'.subsections, "section_id") ]_vars

\* C27: the SubsectionEditor always leaves its loading view, in create mode
\* and in edit mode, whether its fetches succeed or fail.
C27_EditorLeavesLoading ==
    (page = "editor" /\ loading) ~> (page = "editor" /\ ~loading)

(***************************************************************************)
(* Properties of the filters of ProgressAnalytics (specification           *)
(* SpecContent).                                                           *)
(***************************************************************************)
\* the status filters that select a row when the other filters are 'all'
SelectingFilters(item) ==
    {f \in StatusFilters \ {"all"} :
        \E i \in 1..Len(FilterData(progressData, [InitialFilters EXCEPT !.statusFilter = f])) :
            FilterData(progressData, [InitialFilters EXCEPT !.statusFilter = f])[i] = item}

\* the filter named after a status badge
FilterOfBadge(badge) ==
    CASE badge = "Completed" -> "completed"
      [] badge = "In Progress" -> "in-progress"
      [] badge = "Not Started" -> "not-started"

\* C29: every progress row is selected by exactly one of the filters
\* 'completed', 'in-progress' and 'not-started', the one of its status badge;
\* with every filter 'all' and an empty search term the filtered list is the
\* full list.
C29_StatusFiltersPartition ==
    (page = "analytics" /\ ~loading) =>
        /\ \A i \in 1..Len(progressData) :
              SelectingFilters(progressData[i]) = { FilterOfBadge(GetStatusBadge(progressData[i])) }
        /\ analyticsFilters = InitialFilters => filteredData = progressData

====
